---- MODULE Spec2Model ----
(***************************************************************************)
(* Model of the two-server real-time tic-tac-toe: the game state machine   *)
(* (src/src/gameLogic.js, TicTacToeGame), the enhanced WebSocket server's  *)
(* client handlers (src/unnamed/part_001, EnhancedTicTacToeServer) and the *)
(* Redis pub/sub replication handlers (src/src/enhancedRedisSync.js,       *)
(* EnhancedRedisSyncManager).                                              *)
(*                                                                         *)
(* JavaScript values are encoded as follows: null is "null", undefined /   *)
(* an absent field is "none", the empty cell is "", a Set with insertion   *)
(* order is a sequence without repetitions.                                *)
(***************************************************************************)
EXTENDS Integers, Sequences, FiniteSets, TLC

VARIABLES
  game,        \* game[p]: the TicTacToeGame of server p
  isConnected, \* isConnected[p]: the sync manager's flag of server p
  channel,     \* the events the broker holds and may hand over (again)
  inbox,       \* inbox[p]: the events not yet handed to p, oldest first
  now,         \* the clock the event timestamps are read from
  joinedConn,  \* joinedConn[p]: connections of p whose clientInfo.playerId is set
  someoneLeft, \* a joined connection has been closed since construction
  last,        \* what the last handler or call did
  pc,          \* position of the scripted clients in the end-to-end scenario
  outbox,      \* the types of the messages the last handler sent to the
               \* connection it served, in order
  circuitBreaker,        \* circuitBreaker[p]: state, failures, lastFailure,
                         \* and the state the breaker was in when the last
                         \* connection was attempted (attemptState)
  reconnectAttempts,     \* reconnectAttempts[p]
  lastConnectionAttempt, \* lastConnectionAttempt[p]
  timers,      \* timers[p]: the pending setTimeout callbacks of the manager
  brokerUp,    \* the broker accepts connections and publications
  publishErrors, \* publishErrors[p]: publications of p that failed in a row
  clients,     \* the registry of server-3001: clientInfo by connection
  sockets,     \* sockets[c]: the WebSocket of connection c and its peer
  rateLimiter, \* the limiter of server-3001: count and lastReset by address
  wire,        \* wire[c]: the types of the messages the last handler got
               \* through to connection c, in order
  messageQueue, \* the events the manager of server-3001 has queued
  batchTimer,  \* the instant its batch timer is due, if one is pending
  flushed,     \* how long each event of the last batch had been queued
  serverQueue, \* the frames server-3001 has queued for processMessage
  suspended,   \* the join handlers of the current batch that wait for
               \* requestGameSync()
  isProcessingQueue, \* processMessageQueue() of server-3001 is running
  applied,     \* the frames server-3001 has answered, in the order in
               \* which their handlers acted on the game
  told         \* told[p][id]: the mark the last direct call of addPlayer
               \* returned to id, "none" once id was removed by a direct call

\* the connection state of the sync managers and of the broker
connVars == <<isConnected, circuitBreaker, reconnectAttempts,
              lastConnectionAttempt, timers, brokerUp>>

\* the connection layer of server-3001 and the batches of its manager
\* the message queue of server-3001
queueVars == <<serverQueue, suspended, isProcessingQueue, applied>>

serverVars == <<clients, sockets, rateLimiter, wire, messageQueue, batchTimer,
                flushed, queueVars>>

edgeVars == <<serverVars, told>>

vars == <<game, channel, inbox, now, joinedConn, someoneLeft, last, pc, outbox,
          connVars, publishErrors, edgeVars>>

----------------------------------------------------------------------------
(* Bounds of the model *)

\* largest row / column a client sends (0..2 is the board; -1 is the probe
\* below it)
MaxCoord == 3
\* largest global player count a join is handed
MaxGlobalCount == 2
\* number of replication events published in one behaviour of Spec
MaxEvents == 2
\* number of publications that fail in a row in one behaviour of SpecOutage
MaxPublishErrors == 6
\* number of error events the Redis clients of a manager emit
MaxFailures == 6
\* the instant (ms) after which the clock of the model stands still
MaxTime == 12000
\* the instant (ms) after which the clock of SpecCooldown stands still
MaxTrialTime == 31000

----------------------------------------------------------------------------
(* Identities *)

P1 == "server-3001"
P2 == "server-3002"
Procs == {P1, P2}
Players == {"a", "b", "c"}
\* the identifiers the direct calls of the game use
GamePlayers == {"a", "b"}

Cells == (0..2) \X (0..2)

----------------------------------------------------------------------------
(* TicTacToeGame: pure helpers *)

createEmptyBoard == [c \in Cells |-> ""]

NewGame ==
  [board |-> createEmptyBoard, currentPlayer |-> "X", gameStatus |-> "waiting",
   winner |-> "null", players |-> <<>>, moveCount |-> 0]

\* Array.prototype.indexOf on Array.from(players): 0-based, -1 when absent
indexOf(seq, x) ==
  IF \E i \in 1..Len(seq) : seq[i] = x
  THEN (CHOOSE i \in 1..Len(seq) : seq[i] = x /\ \A j \in 1..(i-1) : seq[j] # x) - 1
  ELSE -1

has(seq, x) == \E i \in 1..Len(seq) : seq[i] = x

\* Set.prototype.delete: drop the element, keep the insertion order of the rest
RECURSIVE delete(_, _)
delete(seq, x) ==
  IF seq = <<>> THEN <<>>
  ELSE IF Head(seq) = x THEN delete(Tail(seq), x)
  ELSE <<Head(seq)>> \o delete(Tail(seq), x)

\* new Set(array): insertion order, repetitions dropped
RECURSIVE toSet(_)
toSet(seq) ==
  IF seq = <<>> THEN <<>>
  ELSE LET init == toSet(SubSeq(seq, 1, Len(seq) - 1))
           x == seq[Len(seq)]
       IN IF has(init, x) THEN init ELSE Append(init, x)

Max(a, b) == IF a >= b THEN a ELSE b

getPlayerSymbol(g, playerId) ==
  IF indexOf(g.players, playerId) = 0 THEN "X" ELSE "O"

\* the eight lines in the order checkWinCondition walks them
Lines ==
  << << <<0,0>>, <<0,1>>, <<0,2>> >>,
     << <<1,0>>, <<1,1>>, <<1,2>> >>,
     << <<2,0>>, <<2,1>>, <<2,2>> >>,
     << <<0,0>>, <<1,0>>, <<2,0>> >>,
     << <<0,1>>, <<1,1>>, <<2,1>> >>,
     << <<0,2>>, <<1,2>>, <<2,2>> >>,
     << <<0,0>>, <<1,1>>, <<2,2>> >>,
     << <<0,2>>, <<1,1>>, <<2,0>> >> >>

LineFull(board, i) ==
  /\ board[Lines[i][1]] # ""
  /\ board[Lines[i][1]] = board[Lines[i][2]]
  /\ board[Lines[i][1]] = board[Lines[i][3]]

\* a plausible slip: the anti-diagonal is not looked at
checkWinConditionNoAntiDiag(board) ==
  LET hits == {i \in 1..7 : LineFull(board, i)}
  IN IF hits = {}
     THEN [hasWinner |-> FALSE, winner |-> "none", winningLine |-> 0]
     ELSE LET i == CHOOSE k \in hits : \A j \in hits : k <= j
          IN [hasWinner |-> TRUE, winner |-> board[Lines[i][1]], winningLine |-> i]

checkWinCondition(board) ==
  LET hits == {i \in 1..Len(Lines) : LineFull(board, i)}
  IN IF hits = {}
     THEN [hasWinner |-> FALSE, winner |-> "none", winningLine |-> 0]
     ELSE LET i == CHOOSE k \in hits : \A j \in hits : k <= j
          IN [hasWinner |-> TRUE, winner |-> board[Lines[i][1]], winningLine |-> i]

\* a plausible slip: the occupied-cell check is missing
validateMoveNoOccupied(g, row, col, playerId) ==
  IF g.gameStatus # "playing"
  THEN [valid |-> FALSE, message |-> "Game is not in playing state"]
  ELSE IF getPlayerSymbol(g, playerId) # g.currentPlayer
  THEN [valid |-> FALSE, message |-> "It's not your turn"]
  ELSE IF row < 0 \/ row > 2 \/ col < 0 \/ col > 2
  THEN [valid |-> FALSE, message |-> "Move out of bounds"]
  ELSE [valid |-> TRUE, message |-> "none"]

\* a plausible slip: the cell is looked at before the turn
validateMoveCellFirst(g, row, col, playerId) ==
  IF g.gameStatus # "playing"
  THEN [valid |-> FALSE, message |-> "Game is not in playing state"]
  ELSE IF row < 0 \/ row > 2 \/ col < 0 \/ col > 2
  THEN [valid |-> FALSE, message |-> "Move out of bounds"]
  ELSE IF g.board[<<row, col>>] # ""
  THEN [valid |-> FALSE, message |-> "Cell is already occupied"]
  ELSE IF getPlayerSymbol(g, playerId) # g.currentPlayer
  THEN [valid |-> FALSE, message |-> "It's not your turn"]
  ELSE [valid |-> TRUE, message |-> "none"]

validateMove(g, row, col, playerId) ==
  IF g.gameStatus # "playing"
  THEN [valid |-> FALSE, message |-> "Game is not in playing state"]
  ELSE IF getPlayerSymbol(g, playerId) # g.currentPlayer
  THEN [valid |-> FALSE, message |-> "It's not your turn"]
  ELSE IF row < 0 \/ row > 2 \/ col < 0 \/ col > 2
  THEN [valid |-> FALSE, message |-> "Move out of bounds"]
  ELSE IF g.board[<<row, col>>] # ""
  THEN [valid |-> FALSE, message |-> "Cell is already occupied"]
  ELSE [valid |-> TRUE, message |-> "none"]

getGameState(g) ==
  [board |-> g.board, currentPlayer |-> g.currentPlayer,
   gameStatus |-> g.gameStatus, winner |-> g.winner,
   players |-> g.players, moveCount |-> g.moveCount]

\* the value a method returns, with every field a caller reads
Result(success, message, playerSymbol, gameOver, winner, gameState) ==
  [success |-> success, message |-> message, playerSymbol |-> playerSymbol,
   gameOver |-> gameOver, winner |-> winner, gameState |-> gameState]

----------------------------------------------------------------------------
(* TicTacToeGame: operations; each yields the game after the call and the  *)
(* value returned                                                          *)

\* a plausible slip: the symbol is chosen from the local count alone
addPlayerLocalCount(g, playerId, globalPlayerCount) ==
  LET totalPlayers == Max(Len(g.players), globalPlayerCount)
  IN IF totalPlayers >= 2
     THEN [game |-> g,
           result |-> Result(FALSE, "Game is full", "none", FALSE, "none", g)]
     ELSE IF has(g.players, playerId)
     THEN [game |-> g,
           result |-> Result(FALSE, "Player already in game", "none", FALSE, "none", g)]
     ELSE LET playerSymbol == IF Len(g.players) = 0 THEN "X" ELSE "O"
              players == Append(g.players, playerId)
              g2 == [g EXCEPT !.players = players,
                              !.gameStatus = IF Len(players) = 2 THEN "playing"
                                             ELSE g.gameStatus]
          IN [game |-> g2,
              result |-> Result(TRUE, "You are player", playerSymbol, FALSE, "none", g2)]

addPlayer(g, playerId, globalPlayerCount) ==
  LET totalPlayers == Max(Len(g.players), globalPlayerCount)
  IN IF totalPlayers >= 2
     THEN [game |-> g,
           result |-> Result(FALSE, "Game is full", "none", FALSE, "none", g)]
     ELSE IF has(g.players, playerId)
     THEN [game |-> g,
           result |-> Result(FALSE, "Player already in game", "none", FALSE, "none", g)]
     ELSE LET playerSymbol == IF totalPlayers = 0 THEN "X" ELSE "O"
              players == Append(g.players, playerId)
              g2 == [g EXCEPT !.players = players,
                              !.gameStatus = IF Len(players) = 2 THEN "playing"
                                             ELSE g.gameStatus]
          IN [game |-> g2,
              result |-> Result(TRUE, "You are player", playerSymbol, FALSE, "none", g2)]

\* a plausible slip: the turn goes back to X when a participant leaves
removePlayerResetsTurn(g, playerId) ==
  LET players == delete(g.players, playerId)
  IN [g EXCEPT !.players = players,
               !.currentPlayer = "X",
               !.gameStatus = IF Len(players) < 2 /\ g.gameStatus = "playing"
                              THEN "waiting" ELSE g.gameStatus]

\* a plausible slip: the status is not taken back to waiting
removePlayerNoRevert(g, playerId) ==
  [g EXCEPT !.players = delete(g.players, playerId)]

removePlayer(g, playerId) ==
  LET players == delete(g.players, playerId)
  IN [g EXCEPT !.players = players,
               !.gameStatus = IF Len(players) < 2 /\ g.gameStatus = "playing"
                              THEN "waiting" ELSE g.gameStatus]

\* a plausible slip: the turn is not handed over after a move
makeMoveNoFlip(g, row, col, playerId) ==
  LET validation == validateMove(g, row, col, playerId)
  IN IF ~validation.valid
     THEN [game |-> g,
           result |-> Result(FALSE, validation.message, "none", FALSE, "none", g)]
     ELSE LET playerSymbol == getPlayerSymbol(g, playerId)
              g1 == [g EXCEPT !.board[<<row, col>>] = playerSymbol,
                              !.moveCount = g.moveCount + 1]
              winResult == checkWinCondition(g1.board)
          IN IF winResult.hasWinner
             THEN LET g2 == [g1 EXCEPT !.gameStatus = "finished",
                                       !.winner = winResult.winner]
                  IN [game |-> g2,
                      result |-> Result(TRUE, "none", "none", TRUE,
                                        winResult.winner, getGameState(g2))]
             ELSE IF g1.moveCount = 9
             THEN LET g2 == [g1 EXCEPT !.gameStatus = "finished"]
                  IN [game |-> g2,
                      result |-> Result(TRUE, "none", "none", TRUE, "draw",
                                        getGameState(g2))]
             ELSE LET g2 == g1
                  IN [game |-> g2,
                      result |-> Result(TRUE, "none", "none", FALSE, "none",
                                        getGameState(g2))]

makeMove(g, row, col, playerId) ==
  LET validation == validateMove(g, row, col, playerId)
  IN IF ~validation.valid
     THEN [game |-> g,
           result |-> Result(FALSE, validation.message, "none", FALSE, "none", g)]
     ELSE LET playerSymbol == getPlayerSymbol(g, playerId)
              g1 == [g EXCEPT !.board[<<row, col>>] = playerSymbol,
                              !.moveCount = g.moveCount + 1]
              winResult == checkWinCondition(g1.board)
          IN IF winResult.hasWinner
             THEN LET g2 == [g1 EXCEPT !.gameStatus = "finished",
                                       !.winner = winResult.winner]
                  IN [game |-> g2,
                      result |-> Result(TRUE, "none", "none", TRUE,
                                        winResult.winner, getGameState(g2))]
             ELSE IF g1.moveCount = 9
             THEN LET g2 == [g1 EXCEPT !.gameStatus = "finished"]
                  IN [game |-> g2,
                      result |-> Result(TRUE, "none", "none", TRUE, "draw",
                                        getGameState(g2))]
             ELSE LET g2 == [g1 EXCEPT !.currentPlayer =
                                         IF g1.currentPlayer = "X" THEN "O" ELSE "X"]
                  IN [game |-> g2,
                      result |-> Result(TRUE, "none", "none", FALSE, "none",
                                        getGameState(g2))]

\* a plausible slip: the status is set to playing whatever the count
resetGameAlwaysPlaying(g) ==
  [g EXCEPT !.board = createEmptyBoard,
            !.currentPlayer = "X",
            !.gameStatus = "playing",
            !.winner = "null",
            !.moveCount = 0]

\* a plausible slip: the move counter survives the reset
resetGameKeepCount(g) ==
  [g EXCEPT !.board = createEmptyBoard,
            !.currentPlayer = "X",
            !.gameStatus = IF Len(g.players) = 2 THEN "playing" ELSE "waiting",
            !.winner = "null"]

resetGame(g) ==
  [g EXCEPT !.board = createEmptyBoard,
            !.currentPlayer = "X",
            !.gameStatus = IF Len(g.players) = 2 THEN "playing" ELSE "waiting",
            !.winner = "null",
            !.moveCount = 0]

\* Array.isArray: an array is a function on 1..n, any other object is a
\* function on other keys
isArray(v) == DOMAIN v = 1..Cardinality(DOMAIN v)

\* a plausible slip: the winner is not taken over from the snapshot
updateStateNoWinner(g, newState) ==
  [g EXCEPT !.board = newState.board,
            !.currentPlayer = newState.currentPlayer,
            !.gameStatus = newState.gameStatus,
            !.moveCount = newState.moveCount,
            !.players = IF isArray(newState.players)
                        THEN toSet(newState.players) ELSE g.players]

updateState(g, newState) ==
  [g EXCEPT !.board = newState.board,
            !.currentPlayer = newState.currentPlayer,
            !.gameStatus = newState.gameStatus,
            !.winner = newState.winner,
            !.moveCount = newState.moveCount,
            !.players = IF isArray(newState.players)
                        THEN toSet(newState.players) ELSE g.players]

----------------------------------------------------------------------------
(* What the last handler or call did: its kind, the value it returned and, *)
(* when it was accepted, the inputs it was accepted with (a rejected call  *)
(* leaves only its error message behind)                                   *)

NoResult == Result(FALSE, "none", "none", FALSE, "none", NewGame)

Last(op, p, id, row, col, gcount, result, msgType) ==
  [op |-> op, proc |-> p,
   id |-> IF result.success THEN id ELSE "none",
   row |-> IF result.success THEN row ELSE 0,
   col |-> IF result.success THEN col ELSE 0,
   gcount |-> gcount, result |-> result, msgType |-> msgType]

Done == Result(TRUE, "none", "none", FALSE, "none", NewGame)

----------------------------------------------------------------------------
(* The state after construction: TicTacToeGame constructor on each server, *)
(* nothing published, no connection joined                                 *)

\* The clock counts milliseconds from the construction of the servers; the
\* 0 the constructor writes into its time stamps is the Unix epoch, which
\* lies further back than every delay of the program
Never == -1000000

\* EnhancedRedisSyncManager constructor, apart from isConnected
\* the connections a server is dialled on and the addresses they come from
Conns == {"c1", "c2", "c3"}
Addrs == {"10.0.0.1", "10.0.0.2"}

\* no timer pending: batchTimer is null
NoTimer == -1

\* the server holds no connection, its limiter has seen no address and
\* its manager has queued nothing
NoConnections ==
  /\ clients = [c \in {} |-> 0]
  /\ sockets = [c \in Conns |->
                  [readyState |-> "NONE", answers |-> TRUE, broken |-> FALSE]]
  /\ rateLimiter = [ip \in {} |-> 0]
  /\ wire = [c \in Conns |-> <<>>]
  /\ messageQueue = <<>>
  /\ batchTimer = NoTimer
  /\ flushed = <<>>
  /\ serverQueue = <<>>
  /\ suspended = {}
  /\ isProcessingQueue = FALSE
  /\ applied = <<>>
  /\ told = [p \in Procs |-> [id \in Players |-> "none"]]

Constructed ==
  /\ NoConnections
  /\ circuitBreaker = [p \in Procs |->
                         [state |-> "CLOSED", failures |-> 0, lastFailure |-> Never,
                          attemptState |-> "none"]]
  /\ reconnectAttempts = [p \in Procs |-> 0]
  /\ lastConnectionAttempt = [p \in Procs |-> Never]
  /\ timers = [p \in Procs |-> {}]
  /\ publishErrors = [p \in Procs |-> 0]

\* the managers after initialize() has connected both at instant 0
Connected ==
  /\ NoConnections
  /\ circuitBreaker = [p \in Procs |->
                         [state |-> "CLOSED", failures |-> 0, lastFailure |-> Never,
                          attemptState |-> "CLOSED"]]
  /\ reconnectAttempts = [p \in Procs |-> 0]
  /\ lastConnectionAttempt = [p \in Procs |-> 0]
  /\ timers = [p \in Procs |-> {}]
  /\ publishErrors = [p \in Procs |-> 0]

Init ==
  /\ game = [p \in Procs |-> NewGame]
  /\ isConnected = [p \in Procs |-> FALSE]
  /\ channel = {}
  /\ inbox = [p \in Procs |-> <<>>]
  /\ now = 1
  /\ joinedConn = [p \in Procs |-> {}]
  /\ someoneLeft = FALSE
  /\ last = Last("init", P1, "none", 0, 0, 0, NoResult, "none")
  /\ pc = 0
  /\ outbox = <<>>
  /\ Constructed
  /\ brokerUp = FALSE

----------------------------------------------------------------------------
(* Direct calls of the game's methods, as the unit tests of test-game.js   *)
(* make them; a call that is rejected returns its message and leaves no    *)
(* trace in last                                                           *)

\* the cells of the board and one probe beyond each edge
MoveInputs ==
  Cells \cup {<<-1, 0>>, <<0, -1>>, <<MaxCoord, 2>>, <<2, MaxCoord>>}

\* the moves the clients of the two-server scenarios try: two cells and one
\* probe beyond the edge
SyncMoveInputs == {<<0, 2>>, <<2, 2>>, <<MaxCoord, 2>>}

CallAddPlayer(p, id, g) ==
  LET r == addPlayer(game[p], id, g)
  IN /\ game' = [game EXCEPT ![p] = r.game]
     /\ last' = IF r.result.success
                THEN Last("join", p, id, 0, 0, 0, r.result, "none") ELSE last
     /\ outbox' = <<>>
     /\ told' = IF r.result.success
                THEN [told EXCEPT ![p][id] = r.result.playerSymbol] ELSE told
     /\ UNCHANGED <<connVars, channel, inbox, now, publishErrors, joinedConn,
                    someoneLeft, pc, serverVars>>

CallRemovePlayer(p, id) ==
  /\ game' = [game EXCEPT ![p] = removePlayer(game[p], id)]
  /\ last' = Last("leave", p, id, 0, 0, 0, Done, "none")
  /\ outbox' = <<>>
  /\ told' = [told EXCEPT ![p][id] = "none"]
  /\ UNCHANGED <<connVars, channel, inbox, now, publishErrors, joinedConn,
                 someoneLeft, pc, serverVars>>

CallMakeMove(p, row, col, id) ==
  LET r == makeMove(game[p], row, col, id)
  IN /\ game' = [game EXCEPT ![p] = r.game]
     /\ last' = IF r.result.success
                THEN Last("move", p, id, row, col, 0, r.result, "none") ELSE last
     /\ outbox' = <<>>
     /\ UNCHANGED told
     /\ UNCHANGED <<connVars, channel, inbox, now, publishErrors, joinedConn,
                    someoneLeft, pc, serverVars>>

CallResetGame(p) ==
  /\ game' = [game EXCEPT ![p] = resetGame(game[p])]
  /\ last' = Last("reset", p, "none", 0, 0, 0, Done, "none")
  /\ outbox' = <<>>
  /\ UNCHANGED told
  /\ UNCHANGED <<connVars, channel, inbox, now, publishErrors, joinedConn,
                 someoneLeft, pc, serverVars>>

NextGame ==
  \/ \E id \in GamePlayers, g \in 0..MaxGlobalCount : CallAddPlayer(P1, id, g)
  \/ \E id \in GamePlayers : CallRemovePlayer(P1, id)
  \/ \E rc \in MoveInputs, id \in GamePlayers : CallMakeMove(P1, rc[1], rc[2], id)
  \/ CallResetGame(P1)

SpecGame == Init /\ [][NextGame]_vars

\* the same calls made under three identifiers, of which at most two are
\* participants at any moment, on the cells the clients of the two-server
\* scenarios try
NextStrangers ==
  \/ \E id \in Players, g \in 0..MaxGlobalCount : CallAddPlayer(P1, id, g)
  \/ \E id \in Players : CallRemovePlayer(P1, id)
  \/ \E rc \in SyncMoveInputs, id \in Players : CallMakeMove(P1, rc[1], rc[2], id)
  \/ CallResetGame(P1)

SpecStrangers == Init /\ [][NextStrangers]_vars

TypeOK ==
  /\ \A p \in Procs :
       /\ game[p].gameStatus \in {"waiting", "playing", "finished"}
       /\ game[p].currentPlayer \in {"X", "O"}
       /\ game[p].winner \in {"null", "X", "O"}
       /\ Len(game[p].players) <= 2

----------------------------------------------------------------------------
(* EnhancedRedisSyncManager: the events on the channel and their handlers  *)

\* a replication event; gameState is read only when hasState holds
Event(type, serverId, playerId, hasState, gameState) ==
  [type |-> type, serverId |-> serverId, playerId |-> playerId,
   hasState |-> hasState, gameState |-> gameState, timestamp |-> 0]

validateSyncMessage(data) ==
  /\ data.type \in STRING
  /\ data.serverId \in STRING
  /\ data.timestamp > 0

\* the board is an array of three rows and the two fields are strings
isValidGameState(gameState) ==
  /\ Cardinality({c[1] : c \in DOMAIN gameState.board}) = 3
  /\ gameState.currentPlayer \in STRING
  /\ gameState.gameStatus \in STRING

\* getGameState() has no timestamp field, so the local timestamp reads as 0
handleStateUpdateEnhanced(g, data) ==
  IF data.hasState /\ isValidGameState(data.gameState)
  THEN LET currentTimestamp == 0
           incomingTimestamp == data.timestamp
       IN IF incomingTimestamp > currentTimestamp
          THEN updateState(g, data.gameState) ELSE g
  ELSE g

handlePlayerJoinEnhanced(g, data) ==
  IF data.hasState /\ isValidGameState(data.gameState)
  THEN updateState(g, data.gameState) ELSE g

handlePlayerLeaveEnhanced(g, data) ==
  IF data.playerId # "none" THEN removePlayer(g, data.playerId) ELSE g

handleMoveSyncEnhanced(g, data) ==
  IF data.hasState /\ isValidGameState(data.gameState)
  THEN updateState(g, data.gameState) ELSE g

handleGameResetEnhanced(g, data) == resetGame(g)

processSyncMessage(g, data) ==
  CASE data.type = "stateUpdate" -> handleStateUpdateEnhanced(g, data)
    [] data.type = "playerJoin" -> handlePlayerJoinEnhanced(g, data)
    [] data.type = "playerLeave" -> handlePlayerLeaveEnhanced(g, data)
    [] data.type = "move" -> handleMoveSyncEnhanced(g, data)
    [] data.type = "gameReset" -> handleGameResetEnhanced(g, data)
    [] OTHER -> g

\* a plausible slip: the origin of the event is not looked at
handleSyncMessageSafelyNoOrigin(p, g, data) ==
  IF ~validateSyncMessage(data) THEN g
  ELSE processSyncMessage(g, data)

\* the game of server p after the subscriber callback ran on data
handleSyncMessageSafely(p, g, data) ==
  IF data.serverId = p THEN g
  ELSE IF ~validateSyncMessage(data) THEN g
  ELSE processSyncMessage(g, data)

\* publishMessage: refused while disconnected or while the breaker is
\* open; otherwise the event is stamped, queued and flushed. A broker that
\* is up puts it on the channel, which hands a copy to the subscriber of
\* every server (the publishing one included); with the broker down the
\* three attempts of publishSingleMessage fail and handlePublishError
\* counts the error, which is all it does
publishMessage(p, message) ==
  IF ~isConnected[p] \/ circuitBreaker[p].state = "OPEN"
  THEN UNCHANGED <<channel, inbox, now, publishErrors>>
  ELSE IF brokerUp
  THEN LET stamped == [message EXCEPT !.timestamp = now]
       IN /\ channel' = channel \cup {stamped}
          /\ inbox' = [q \in Procs |-> Append(inbox[q], stamped)]
          /\ now' = now + 1
          /\ publishErrors' = [publishErrors EXCEPT ![p] = 0]
  ELSE /\ publishErrors' = [publishErrors EXCEPT ![p] = @ + 1]
       /\ UNCHANGED <<channel, inbox, now>>

publishPlayerJoin(p, playerId, gameState) ==
  publishMessage(p, Event("playerJoin", p, playerId, TRUE, gameState))

publishPlayerLeave(p, playerId) ==
  publishMessage(p, Event("playerLeave", p, playerId, FALSE, NewGame))

publishMove(p, gameState) ==
  publishMessage(p, Event("move", p, "none", TRUE, gameState))

publishGameReset(p) ==
  publishMessage(p, Event("gameReset", p, "none", FALSE, NewGame))

----------------------------------------------------------------------------
(* EnhancedTicTacToeServer: the client handlers                            *)

\* the player counts requestGameSync() may hand to a join
requestGameSync == 0..MaxGlobalCount

JoinedAnywhere == UNION {joinedConn[p] : p \in Procs}

\* a connection sends {type: "join"}
HandleJoin(p, id, g) ==
  /\ now <= pc + MaxEvents
  /\ \A q \in Procs \ {p} : id \notin joinedConn[q]
  /\ LET r == addPlayer(game[p], id, g)
     IN /\ game' = [game EXCEPT ![p] = r.game]
        /\ last' = Last("join", p, id, 0, 0, g, r.result, "none")
        /\ IF r.result.success
           THEN /\ joinedConn' = [joinedConn EXCEPT ![p] = @ \cup {id}]
                /\ publishPlayerJoin(p, id, getGameState(r.game))
           ELSE UNCHANGED <<joinedConn, channel, inbox, now, publishErrors>>
        /\ outbox' = IF r.result.success THEN <<"joined", "gameState">>
                     ELSE <<"error">>
  /\ UNCHANGED <<connVars, someoneLeft>>

\* a plausible slip: a move is refused while the sync manager is not
\* connected
HandleMoveNeedsBroker(p, id, row, col) ==
  /\ now <= pc + MaxEvents
  /\ IF id \notin joinedConn[p] \/ ~isConnected[p]
     THEN /\ last' = Last("move", p, id, row, col, 0,
                          Result(FALSE, "You must join the game first",
                                 "none", FALSE, "none", game[p]), "none")
          /\ outbox' = <<"error">>
          /\ UNCHANGED <<game, channel, inbox, now, publishErrors>>
     ELSE LET r == makeMove(game[p], row, col, id)
          IN /\ game' = [game EXCEPT ![p] = r.game]
             /\ last' = Last("move", p, id, row, col, 0, r.result, "none")
             /\ IF r.result.success
                THEN publishMove(p, r.result.gameState)
                ELSE UNCHANGED <<channel, inbox, now, publishErrors>>
             /\ outbox' = IF ~r.result.success THEN <<"error">>
                          ELSE IF r.result.gameOver THEN <<"gameState", "gameOver">>
                          ELSE <<"gameState">>
  /\ UNCHANGED <<connVars, joinedConn, someoneLeft>>

\* a plausible slip: the state is published whether or not the move was
\* accepted
HandleMovePublishesRejected(p, id, row, col) ==
  /\ now <= pc + MaxEvents
  /\ IF id \notin joinedConn[p]
     THEN /\ last' = Last("move", p, id, row, col, 0,
                          Result(FALSE, "You must join the game first",
                                 "none", FALSE, "none", game[p]), "none")
          /\ outbox' = <<"error">>
          /\ UNCHANGED <<game, channel, inbox, now, publishErrors>>
     ELSE LET r == makeMove(game[p], row, col, id)
          IN /\ game' = [game EXCEPT ![p] = r.game]
             /\ last' = Last("move", p, id, row, col, 0, r.result, "none")
             /\ publishMove(p, getGameState(r.game))
             /\ outbox' = IF ~r.result.success THEN <<"error">>
                          ELSE IF r.result.gameOver THEN <<"gameState", "gameOver">>
                          ELSE <<"gameState">>
  /\ UNCHANGED <<connVars, joinedConn, someoneLeft>>

\* a connection sends {type: "move", row, col}
HandleMove(p, id, row, col) ==
  /\ now <= pc + MaxEvents
  /\ IF id \notin joinedConn[p]
     THEN /\ last' = Last("move", p, id, row, col, 0,
                          Result(FALSE, "You must join the game first",
                                 "none", FALSE, "none", game[p]), "none")
          /\ outbox' = <<"error">>
          /\ UNCHANGED <<game, channel, inbox, now, publishErrors>>
     ELSE LET r == makeMove(game[p], row, col, id)
          IN /\ game' = [game EXCEPT ![p] = r.game]
             /\ last' = Last("move", p, id, row, col, 0, r.result, "none")
             /\ IF r.result.success
                THEN publishMove(p, r.result.gameState)
                ELSE UNCHANGED <<channel, inbox, now, publishErrors>>
             /\ outbox' = IF ~r.result.success THEN <<"error">>
                          ELSE IF r.result.gameOver THEN <<"gameState", "gameOver">>
                          ELSE <<"gameState">>
  /\ UNCHANGED <<connVars, joinedConn, someoneLeft>>

\* a connection sends {type: "reset"}
HandleReset(p) ==
  /\ now <= pc + MaxEvents
  /\ game' = [game EXCEPT ![p] = resetGame(game[p])]
  /\ last' = Last("reset", p, "none", 0, 0, 0, Done, "none")
  /\ publishGameReset(p)
  /\ outbox' = <<"gameState">>
  /\ UNCHANGED <<connVars, joinedConn, someoneLeft>>

\* the connection of a joined participant closes
HandleDisconnect(p, id) ==
  /\ now <= pc + MaxEvents
  /\ id \in joinedConn[p]
  /\ game' = [game EXCEPT ![p] = removePlayer(game[p], id)]
  /\ joinedConn' = [joinedConn EXCEPT ![p] = @ \ {id}]
  /\ someoneLeft' = TRUE
  /\ last' = Last("leave", p, id, 0, 0, 0, Done, "none")
  /\ publishPlayerLeave(p, id)
  /\ outbox' = <<>>
  /\ UNCHANGED connVars

\* what a delivery leaves behind: the kind of the event, its origin and who
\* was handed it
Received(p, data) ==
  Last("recv", p, data.serverId, 0, 0, 0, Done, data.type)

\* a broker that delivers at least once, in any order, possibly repeatedly:
\* the subscriber of p is handed any event published so far
Deliver(p, data) ==
  /\ data \in channel
  /\ game' = [game EXCEPT ![p] = handleSyncMessageSafely(p, game[p], data)]
  /\ last' = Received(p, data)
  /\ outbox' = <<>>
  /\ UNCHANGED <<connVars, channel, inbox, now, publishErrors, joinedConn, someoneLeft>>

\* a broker that delivers exactly once and in order: the subscriber of p is
\* handed the oldest event it has not been handed yet, and the broker drops
\* an event once every subscriber has been handed it
DeliverNext(p) ==
  /\ inbox[p] # <<>>
  /\ game' = [game EXCEPT ![p] = handleSyncMessageSafely(p, game[p], Head(inbox[p]))]
  /\ inbox' = [inbox EXCEPT ![p] = Tail(@)]
  /\ channel' = {e \in channel :
                   \E q \in Procs : \E i \in 1..Len(inbox'[q]) : inbox'[q][i] = e}
  /\ last' = Received(p, Head(inbox[p]))
  /\ outbox' = <<>>
  /\ UNCHANGED <<connVars, now, publishErrors, joinedConn, someoneLeft>>

\* the servers a client of the given identifier connects to
Home(id) == IF id = "a" THEN {P1} ELSE IF id = "b" THEN {P2} ELSE Procs

ClientStep ==
  \/ \E id \in Players, g \in requestGameSync : \E p \in Home(id) :
       HandleJoin(p, id, g)
  \/ \E id \in Players, rc \in SyncMoveInputs : \E p \in Home(id) :
       HandleMove(p, id, rc[1], rc[2])
  \/ \E p \in Procs : HandleReset(p)
  \/ \E p \in Procs, id \in Players : HandleDisconnect(p, id)

Next ==
  \/ ClientStep /\ UNCHANGED <<pc, edgeVars>>
  \/ \E p \in Procs : \E data \in channel : Deliver(p, data) /\ UNCHANGED <<pc, edgeVars>>

NextFifo ==
  \/ ClientStep /\ UNCHANGED <<pc, edgeVars>>
  \/ \E p \in Procs : DeliverNext(p) /\ UNCHANGED <<pc, edgeVars>>

----------------------------------------------------------------------------
(* The end-to-end scenario of tests/working-demo.js and of the             *)
(* specification: X joins on the first server, O on the second, X plays    *)
(* the top row while O plays (1,0) and (1,1)                               *)

ScriptStep(op, p, id, row, col) ==
  [op |-> op, proc |-> p, id |-> id, row |-> row, col |-> col]

Script ==
  << ScriptStep("join", P1, "a", 0, 0),
     ScriptStep("join", P2, "b", 0, 0),
     ScriptStep("move", P1, "a", 0, 0),
     ScriptStep("move", P2, "b", 1, 0),
     ScriptStep("move", P1, "a", 0, 1),
     ScriptStep("move", P2, "b", 1, 1),
     ScriptStep("move", P1, "a", 0, 2) >>

\* the scripted client sends its next message; the script moves on when the
\* message is accepted, and the client sends it again otherwise
Scripted ==
  /\ pc < Len(Script)
  /\ LET st == Script[pc + 1]
     IN /\ \/ st.op = "join" /\ \E g \in requestGameSync :
                                  HandleJoin(st.proc, st.id, g)
           \/ st.op = "move" /\ HandleMove(st.proc, st.id, st.row, st.col)
        /\ pc' = IF last'.result.success THEN pc + 1 ELSE pc
        /\ UNCHANGED edgeVars

NextE2E ==
  \/ Scripted
  \/ \E p \in Procs : DeliverNext(p) /\ UNCHANGED <<pc, edgeVars>>

\* the game both servers hold after the first k steps of the script, each
\* event having been handed to the other server before the next step
RECURSIVE ScriptGame(_)
ScriptGame(k) ==
  IF k = 0 THEN NewGame
  ELSE LET st == Script[k]
           g == ScriptGame(k - 1)
       IN IF st.op = "join" THEN addPlayer(g, st.id, k - 1).game
          ELSE makeMove(g, st.row, st.col, st.id).game

\* both servers have started and their sync managers are connected; the
\* scripted clients have played the first k steps and the broker has handed
\* every event over and dropped it
PlayedTo(k) ==
  /\ game = [p \in Procs |-> ScriptGame(k)]
  /\ isConnected = [p \in Procs |-> TRUE]
  /\ channel = {}
  /\ inbox = [p \in Procs |-> <<>>]
  /\ now = k + 1
  /\ joinedConn = [p \in Procs |->
                     {Script[i].id : i \in {j \in 1..k : Script[j].op = "join"
                                                        /\ Script[j].proc = p}}]
  /\ someoneLeft = FALSE
  /\ last = Last("init", P1, "none", 0, 0, 0, NoResult, "none")
  /\ pc = k
  /\ outbox = <<>>
  /\ Connected

\* ... and the broker is up
StartedAfter(k) == PlayedTo(k) /\ brokerUp = TRUE

Started == StartedAfter(0)

\* free play of the clients, from a fresh start or from the scripted game
\* one move before its end, over a broker that may reorder and repeat
Spec == (StartedAfter(0) \/ StartedAfter(Len(Script) - 1)) /\ [][Next]_vars

\* free play over a broker that delivers exactly once and in order
SpecFifo == Started /\ [][NextFifo]_vars

\* the scripted game over a broker that delivers exactly once and in order
SpecE2E == Started /\ [][NextE2E]_vars

----------------------------------------------------------------------------
(* The subscriber callback on whatever a publisher put on the channel: the *)
(* five kinds of event, from either origin, with snapshots of every shape  *)

\* the game the scripted clients have reached before the last move
MidGame == ScriptGame(Len(Script) - 1)

\* snapshots as they may arrive: 1 a proper one, 2 a board of three rows of
\* four cells, 3 a board of two rows, 4 a status outside the enumeration,
\* 5 participants that are not a list
InboundSnapshot(k) ==
  LET good == [getGameState(MidGame) EXCEPT !.moveCount = 0,
                                            !.board = createEmptyBoard]
  IN CASE k = 1 -> good
       [] k = 2 -> [good EXCEPT !.board = [c \in (0..2) \X (0..3) |-> ""]]
       [] k = 3 -> [good EXCEPT !.board = [c \in (0..1) \X (0..2) |-> ""]]
       [] k = 4 -> [good EXCEPT !.gameStatus = "paused"]
       [] OTHER -> [good EXCEPT !.players = [i \in {0} |-> "a"]]

Shapes == 1..5

\* the kinds of event that carry a snapshot, and those that do not
SnapshotKinds == {"stateUpdate", "playerJoin", "move"}
PlainKinds == {"playerLeave", "gameReset"}
\* the kind a joining server would ask its peers with; processSyncMessage
\* has no case for it
RequestKinds == {"syncRequest"}

\* an event as it is taken off the channel
InboundEvent(type, origin, k) ==
  IF type \in SnapshotKinds
  THEN [Event(type, origin, "none", TRUE, InboundSnapshot(k)) EXCEPT !.timestamp = 1]
  ELSE [Event(type, origin, "a", FALSE, NewGame) EXCEPT !.timestamp = 1]

\* the subscriber of p is handed data
Inbound(p, data) ==
  /\ game' = [game EXCEPT ![p] = handleSyncMessageSafely(p, game[p], data)]
  /\ last' = Received(p, data)
  /\ outbox' = <<>>
  /\ UNCHANGED told
  /\ UNCHANGED <<connVars, channel, inbox, now, publishErrors, joinedConn,
                 someoneLeft, pc, serverVars>>

NextInbound ==
  \E p \in Procs, origin \in Procs, k \in Shapes :
    \E type \in SnapshotKinds \cup PlainKinds \cup RequestKinds :
      Inbound(p, InboundEvent(type, origin, k))

SpecInbound == StartedAfter(Len(Script) - 1) /\ [][NextInbound]_vars

----------------------------------------------------------------------------
(* validateMove called on its own, on the games the script passes through: *)
(* the arguments and the verdict are kept whole in last                    *)

CallValidateMove(p, row, col, id) ==
  LET v == validateMove(game[p], row, col, id)
  IN /\ last' = [op |-> "validate", proc |-> p, id |-> id, row |-> row,
                 col |-> col, gcount |-> 0,
                 result |-> Result(v.valid, v.message, "none", FALSE, "none",
                                   NewGame),
                 msgType |-> "none"]
     /\ outbox' = <<>>
     /\ UNCHANGED <<game, connVars, channel, inbox, now, publishErrors,
                    joinedConn, someoneLeft, pc, edgeVars>>

NextValidate ==
  \E rc \in MoveInputs, id \in GamePlayers : CallValidateMove(P1, rc[1], rc[2], id)

SpecValidate ==
  /\ \E k \in 0..Len(Script) : StartedAfter(k)
  /\ [][NextValidate]_vars

----------------------------------------------------------------------------
(* EnhancedRedisSyncManager: connection, circuit breaker and reconnection. *)
(* The Redis clients and the broker are the environment: a connection      *)
(* attempt succeeds exactly when the broker is up, and the clients emit    *)
(* 'error', 'ready', 'end' and 'reconnecting' when they please.            *)

maxReconnectAttempts == 10
reconnectDelay == 1000
maxReconnectDelay == 30000
threshold == 5
breakerTimeout == 30000
connectionRateLimit == 5000

Min(a, b) == IF a <= b THEN a ELSE b

\* a pending setTimeout callback: the sleep of the start-up retry loop
\* ("start") or a reconnection ("reconnect")
Timer(kind, delay, attempt) ==
  [kind |-> kind, due |-> now + delay, delay |-> delay, attempt |-> attempt]

\* a plausible slip: the breaker opens only once the count has passed the
\* threshold
countFailureLate(cb) ==
  LET failures == cb.failures + 1
  IN [cb EXCEPT !.state = IF failures > threshold THEN "OPEN" ELSE cb.state,
                !.failures = failures, !.lastFailure = now]

\* the failure count and the state of the breaker after one more failure
countFailure(cb) ==
  LET failures == cb.failures + 1
  IN [cb EXCEPT !.state = IF failures >= threshold THEN "OPEN" ELSE cb.state,
                !.failures = failures, !.lastFailure = now]

\* a plausible slip: the time of the failure is not taken down
handleConnectionFailureKeepsTime(cb) ==
  [countFailure(cb) EXCEPT !.lastFailure = cb.lastFailure]

handleConnectionFailure(cb) == countFailure(cb)

\* a plausible slip: the breaker is not looked at before connecting
initializeAnyway(p) ==
  LET cb == circuitBreaker[p]
  IN IF now - lastConnectionAttempt[p] < connectionRateLimit
     THEN UNCHANGED <<isConnected, circuitBreaker, reconnectAttempts,
                      lastConnectionAttempt>>
     ELSE /\ lastConnectionAttempt' =
               [lastConnectionAttempt EXCEPT ![p] = now]
          /\ IF brokerUp
             THEN /\ isConnected' = [isConnected EXCEPT ![p] = TRUE]
                  /\ reconnectAttempts' =
                       [reconnectAttempts EXCEPT ![p] = 0]
                  /\ circuitBreaker' =
                       [circuitBreaker EXCEPT ![p] =
                          [cb EXCEPT !.state = "CLOSED", !.failures = 0,
                                     !.attemptState = cb.state]]
             ELSE /\ circuitBreaker' =
                       [circuitBreaker EXCEPT ![p] =
                          handleConnectionFailure(
                            [cb EXCEPT !.attemptState = cb.state])]
                  /\ UNCHANGED <<isConnected, reconnectAttempts>>

\* initialize(): skipped while the breaker is open and its timeout has not
\* run out, and when the last attempt is less than five seconds old;
\* timers and the broker are left alone
initialize(p) ==
  LET cb == circuitBreaker[p]
      open == cb.state = "OPEN"
  IN IF open /\ now - cb.lastFailure < breakerTimeout
     THEN UNCHANGED <<isConnected, circuitBreaker, reconnectAttempts,
                      lastConnectionAttempt>>
     ELSE LET cb1 == IF open THEN [cb EXCEPT !.state = "HALF_OPEN"] ELSE cb
          IN IF now - lastConnectionAttempt[p] < connectionRateLimit
             THEN /\ circuitBreaker' = [circuitBreaker EXCEPT ![p] = cb1]
                  /\ UNCHANGED <<isConnected, reconnectAttempts,
                                 lastConnectionAttempt>>
             ELSE /\ lastConnectionAttempt' =
                       [lastConnectionAttempt EXCEPT ![p] = now]
                  /\ IF brokerUp
                     THEN /\ isConnected' = [isConnected EXCEPT ![p] = TRUE]
                          /\ reconnectAttempts' =
                               [reconnectAttempts EXCEPT ![p] = 0]
                          /\ circuitBreaker' =
                               [circuitBreaker EXCEPT ![p] =
                                  [cb1 EXCEPT !.state = "CLOSED", !.failures = 0,
                                              !.attemptState = cb1.state]]
                     ELSE /\ circuitBreaker' =
                               [circuitBreaker EXCEPT ![p] =
                                  handleConnectionFailure(
                                    [cb1 EXCEPT !.attemptState = cb1.state])]
                          /\ UNCHANGED <<isConnected, reconnectAttempts>>

\* scheduleReconnection(), the timers pending otherwise being given
scheduleReconnection(p, pending) ==
  IF reconnectAttempts[p] >= maxReconnectAttempts
  THEN /\ timers' = [timers EXCEPT ![p] = pending]
       /\ UNCHANGED reconnectAttempts
  ELSE LET attempt == reconnectAttempts[p] + 1
           delay == Min(reconnectDelay * 2 ^ (attempt - 1), maxReconnectDelay)
       IN /\ reconnectAttempts' = [reconnectAttempts EXCEPT ![p] = attempt]
          /\ timers' = [timers EXCEPT ![p] =
                          pending \cup {Timer("reconnect", delay, attempt)}]

\* what the connection steps leave alone
ServerIdle ==
  UNCHANGED <<game, channel, inbox, joinedConn, someoneLeft, last, outbox,
              publishErrors, edgeVars>>

\* the Redis clients exist once initialize() has got past its rate limit
HasClients(p) == lastConnectionAttempt[p] # Never

\* a client of p emits 'error': handleRedisError
RedisError(p) ==
  /\ HasClients(p)
  /\ circuitBreaker[p].failures < MaxFailures
  /\ circuitBreaker' = [circuitBreaker EXCEPT ![p] = countFailure(@)]
  /\ isConnected' = [isConnected EXCEPT ![p] = FALSE]
  /\ scheduleReconnection(p, timers[p])
  /\ ServerIdle
  /\ UNCHANGED <<lastConnectionAttempt, brokerUp, now, pc>>

\* the publisher of p emits 'ready'
Ready(p) ==
  /\ HasClients(p)
  /\ brokerUp
  /\ ~isConnected[p]
  /\ isConnected' = [isConnected EXCEPT ![p] = TRUE]
  /\ reconnectAttempts' = [reconnectAttempts EXCEPT ![p] = 0]
  /\ ServerIdle
  /\ UNCHANGED <<circuitBreaker, lastConnectionAttempt, timers, brokerUp, now, pc>>

\* the publisher of p emits 'end' or 'reconnecting'
ConnectionLost(p) ==
  /\ isConnected[p]
  /\ isConnected' = [isConnected EXCEPT ![p] = FALSE]
  /\ ServerIdle
  /\ UNCHANGED <<circuitBreaker, reconnectAttempts, lastConnectionAttempt,
                 timers, brokerUp, now, pc>>

\* the broker goes down or comes back
BrokerFlip ==
  /\ brokerUp' = ~brokerUp
  /\ ServerIdle
  /\ UNCHANGED <<isConnected, circuitBreaker, reconnectAttempts,
                 lastConnectionAttempt, timers, now, pc>>

\* start(): pc counts the attempts initializeRedisWithRetry has made, and
\* is Serving once the WebSocket server listens
startRetries == 3
startBaseDelay == 1000
Serving == startRetries + 1

\* one round of the loop of initializeRedisWithRetry, the timers pending
\* otherwise being given: the attempt, and the sleep before the next one
startAttempt(p, pending) ==
  /\ initialize(p)
  /\ IF isConnected'[p] \/ pc + 1 >= startRetries
     THEN /\ pc' = Serving
          /\ timers' = [timers EXCEPT ![p] = pending]
     ELSE /\ pc' = pc + 1
          /\ timers' = [timers EXCEPT ![p] = pending \cup
                          {Timer("start", startBaseDelay * 2 ^ pc, pc + 1)}]

\* the process of p starts
Start(p) ==
  /\ pc = 0
  /\ \A t \in timers[p] : t.kind # "start"
  /\ lastConnectionAttempt[p] = Never
  /\ startAttempt(p, timers[p])
  /\ ServerIdle
  /\ UNCHANGED <<brokerUp, now>>

\* a timer of p that is due runs its callback
TimerFires(p, t) ==
  /\ t \in timers[p]
  /\ t.due <= now
  /\ IF t.kind = "start"
     THEN startAttempt(p, timers[p] \ {t})
     ELSE /\ timers' = [timers EXCEPT ![p] = @ \ {t}]
          /\ IF ~isConnected[p] THEN initialize(p)
             ELSE UNCHANGED <<isConnected, circuitBreaker, reconnectAttempts,
                              lastConnectionAttempt>>
          /\ UNCHANGED <<pc, edgeVars>>
  /\ ServerIdle
  /\ UNCHANGED <<brokerUp, now>>

\* time passes once every timer that is due has run: up to the next
\* instant a timer is due, or, with no timer to wait for, by one of the
\* program's waiting times
TickWithin(limit) ==
  /\ LET waiting == {x.due : x \in UNION {timers[p] : p \in Procs}}
         next == IF waiting # {}
                 THEN {d \in waiting : \A e \in waiting : d <= e}
                 ELSE {now + connectionRateLimit, now + breakerTimeout}
     IN \E t \in next : t > now /\ t <= limit /\ now' = t
  /\ ServerIdle
  /\ UNCHANGED <<connVars, pc>>

Tick == TickWithin(MaxTime)

\* time passes, for longer than the breaker stays open
LongTick == TickWithin(MaxTrialTime)

\* one enhanced server from its start
NextBreaker ==
  \/ Start(P1)
  \/ \E t \in timers[P1] : TimerFires(P1, t)
  \/ RedisError(P1)
  \/ Ready(P1)
  \/ ConnectionLost(P1)
  \/ BrokerFlip
  \/ Tick

SpecBreaker == Init /\ [][NextBreaker]_vars

\* one enhanced server from its start whose Redis clients emit errors and
\* nothing else
NextCooldown ==
  \/ Start(P1)
  \/ \E t \in timers[P1] : TimerFires(P1, t)
  \/ RedisError(P1)
  \/ BrokerFlip
  \/ LongTick

SpecCooldown == Init /\ [][NextCooldown]_vars

\* the instant (ms) after which the clock of SpecRecovery stands still
MaxRecoveryTime == 50000

\* the broker comes back and stays
BrokerReturns ==
  /\ ~brokerUp
  /\ BrokerFlip

\* one enhanced server from its start, while the broker is away and after
\* it has come back for good: the timers run when they are due and time
\* passes; the Redis clients emit 'error' while the broker is away and
\* 'ready' once it is back
NextRecovery ==
  \/ Start(P1)
  \/ \E t \in timers[P1] : TimerFires(P1, t)
  \/ ~brokerUp /\ RedisError(P1)
  \/ Ready(P1)
  \/ BrokerReturns
  \/ TickWithin(MaxRecoveryTime)

SpecRecovery ==
  /\ Init
  /\ [][NextRecovery]_vars
  /\ WF_vars(\E t \in timers[P1] : TimerFires(P1, t))
  /\ WF_vars(TickWithin(MaxRecoveryTime))

\* The broker stops taking publications in the middle of the scripted
\* game while the connections of the managers stay up: the clients of
\* server-3001 go on sending and its Redis clients may emit errors; no
\* time passes
Outage == PlayedTo(Len(Script) - 1) /\ brokerUp = FALSE

NextOutage ==
  \/ /\ publishErrors[P1] < MaxPublishErrors
     /\ HandleReset(P1)
     /\ UNCHANGED <<pc, edgeVars>>
  \/ /\ publishErrors[P1] < MaxPublishErrors
     /\ \E rc \in SyncMoveInputs : HandleMove(P1, "a", rc[1], rc[2])
     /\ UNCHANGED <<pc, edgeVars>>
  \/ RedisError(P1)

SpecOutage == Outage /\ [][NextOutage]_vars

----------------------------------------------------------------------------
(* RedisSyncManager, the sync manager of the basic server (server.js):     *)
(* no circuit breaker and no rate limit; lastConnectionAttempt only tells  *)
(* whether its Redis clients exist                                         *)

basicMaxReconnectAttempts == 5
basicReconnectDelay == 5000

\* RedisSyncManager.initialize(): the clients are created and the
\* publisher emits 'connect' if the broker is up
basicInitialize(p) ==
  /\ lastConnectionAttempt' = [lastConnectionAttempt EXCEPT ![p] = now]
  /\ IF brokerUp
     THEN /\ isConnected' = [isConnected EXCEPT ![p] = TRUE]
          /\ reconnectAttempts' = [reconnectAttempts EXCEPT ![p] = 0]
     ELSE UNCHANGED <<isConnected, reconnectAttempts>>

\* the basic server of p starts
BasicStart(p) ==
  /\ ~HasClients(p)
  /\ basicInitialize(p)
  /\ ServerIdle
  /\ UNCHANGED <<circuitBreaker, timers, brokerUp, now, pc>>

\* a client of p emits 'error': RedisSyncManager.handleRedisError
BasicRedisError(p) ==
  /\ HasClients(p)
  /\ isConnected' = [isConnected EXCEPT ![p] = FALSE]
  /\ IF reconnectAttempts[p] < basicMaxReconnectAttempts
     THEN LET attempt == reconnectAttempts[p] + 1
          IN /\ reconnectAttempts' = [reconnectAttempts EXCEPT ![p] = attempt]
             /\ timers' = [timers EXCEPT ![p] = @ \cup
                             {Timer("reconnect", basicReconnectDelay * attempt,
                                    attempt)}]
     ELSE /\ reconnectAttempts' =
               [reconnectAttempts EXCEPT ![p] =
                  IF @ = basicMaxReconnectAttempts THEN @ + 1 ELSE @]
          /\ UNCHANGED timers
  /\ ServerIdle
  /\ UNCHANGED <<circuitBreaker, lastConnectionAttempt, brokerUp, now, pc>>

\* a reconnection timer of p that is due runs initialize()
BasicTimerFires(p, t) ==
  /\ t \in timers[p]
  /\ t.due <= now
  /\ timers' = [timers EXCEPT ![p] = @ \ {t}]
  /\ basicInitialize(p)
  /\ ServerIdle
  /\ UNCHANGED <<circuitBreaker, brokerUp, now, pc>>

\* one basic server from its start
NextBasic ==
  \/ BasicStart(P2)
  \/ BasicRedisError(P2)
  \/ \E t \in timers[P2] : BasicTimerFires(P2, t)
  \/ BrokerFlip
  \/ Tick

SpecBasic == Init /\ [][NextBasic]_vars

----------------------------------------------------------------------------
(* EnhancedTicTacToeServer: the path of a WebSocket frame from             *)
(* handleMessageSafely through the message queue to processMessage. A      *)
(* connection is named by the participant identifier it joins with.        *)

\* what a connection may send, by what JSON.parse makes of the frame:
\* "notJson" is text that does not parse, "null" the JSON text null,
\* "moveText" a move whose row is a string, "bogus" an unknown type
Frame(kind, row, col) == [kind |-> kind, row |-> row, col |-> col]

ClientFrames ==
  {Frame("move", rc[1], rc[2]) : rc \in SyncMoveInputs}
    \cup {Frame(k, 0, 0) : k \in {"join", "moveText", "reset", "ping", "bogus",
                                   "notJson", "null"}}

\* the frames of two participants who join and play
LocalFrames ==
  {Frame("move", rc[1], rc[2]) : rc \in Cells} \cup {Frame("join", 0, 0)}

\* the reply to a frame that no game handler is called for
Reply(p, id, frame, result, sent) ==
  /\ last' = Last("message", p, id, 0, 0, 0, result, frame.kind)
  /\ outbox' = sent
  /\ UNCHANGED <<game, channel, inbox, now, publishErrors, joinedConn,
                 someoneLeft, connVars>>

Failed(message) == Result(FALSE, message, "none", FALSE, "none", NewGame)

\* the frame of connection id arrives at server p; g is what
\* requestGameSync() hands to a join
HandleMessage(p, id, frame, g) ==
  CASE frame.kind = "notJson" ->
         Reply(p, id, frame, Failed("Invalid message format"), <<"error">>)
    [] frame.kind = "null" ->
         \* message.type throws in processMessage; processMessageQueue
         \* catches, logs and counts the error
         Reply(p, id, frame, NoResult, <<>>)
    [] frame.kind = "join" -> HandleJoin(p, id, g)
    [] frame.kind = "move" -> HandleMove(p, id, frame.row, frame.col)
    [] frame.kind = "moveText" ->
         IF id \notin joinedConn[p]
         THEN Reply(p, id, frame, Failed("You must join the game first"), <<"error">>)
         ELSE Reply(p, id, frame, Failed("Row and column must be numbers"), <<"error">>)
    [] frame.kind = "reset" -> HandleReset(p)
    [] frame.kind = "ping" -> Reply(p, id, frame, Done, <<"pong">>)
    [] OTHER -> Reply(p, id, frame, Failed("Unknown message type"), <<"error">>)

\* the global player count a join is handed while the broker cannot be
\* reached: the basic server calls addPlayer(playerId), whose count
\* defaults to 0
OfflineCounts == {0}

\* the two connections of one server while the broker is unreachable for
\* the whole session: the sync manager never connects
NextLocal ==
  \E id \in GamePlayers, frame \in LocalFrames, g \in OfflineCounts :
    HandleMessage(P1, id, frame, g) /\ UNCHANGED <<pc, edgeVars>>

SpecLocal == Init /\ [][NextLocal]_vars

\* the connections of one server send frames of every kind
NextClient ==
  \E id \in GamePlayers, frame \in ClientFrames, g \in OfflineCounts :
    HandleMessage(P1, id, frame, g) /\ UNCHANGED <<pc, edgeVars>>

SpecClient == Init /\ [][NextClient]_vars

----------------------------------------------------------------------------
(* EnhancedTicTacToeServer: the connections of server-3001, its registry   *)
(* (this.clients), the limiter of new connections and the health check.    *)
(* clientInfo.playerId of a connection is the identifier it joins with     *)
(* once that identifier is in joinedConn.                                  *)

maxConnections == 100
maxPerWindow == 30
windowLength == 60000
maxMessages == 100
staleThreshold == 1800000

\* the identifier connection c joins with
Ident(c) == IF c = "c1" THEN "a" ELSE IF c = "c2" THEN "b" ELSE "c"

\* f without the entries of S
Drop(f, S) == [x \in DOMAIN f \ S |-> f[x]]

Silent == [c \in Conns |-> <<>>]

\* sendMessage(ws, message) returns true: the socket is open and ws.send
\* does not throw
CanSend(c) == sockets[c].readyState = "OPEN" /\ ~sockets[c].broken

\* the messages of broadcastGameState() and broadcastGameOver()
Broadcasts == {"gameState", "gameOver"}

\* what the handler serving connection c gets through when it sends the
\* messages out: to c all of them, to every other registered connection
\* the broadcasts; a connection whose send fails is passed over
Wire(c, out) ==
  [d \in Conns |->
     IF d \notin DOMAIN clients \/ ~CanSend(d) THEN <<>>
     ELSE IF d = c THEN out
     ELSE SelectSeq(out, LAMBDA k : k \in Broadcasts)]

\* a plausible slip: the connection that finds the count at the limit is
\* still let in
isRateLimitedOffByOne(limiter, ip) ==
  IF ip \notin DOMAIN limiter
  THEN [limited |-> FALSE,
        limiter |-> limiter @@ (ip :> [count |-> 1, lastReset |-> now,
                                       admitted |-> 1])]
  ELSE IF now - limiter[ip].lastReset > windowLength
  THEN [limited |-> FALSE,
        limiter |-> [limiter EXCEPT ![ip] = [count |-> 1, lastReset |-> now,
                                             admitted |-> 1]]]
  ELSE IF limiter[ip].count > maxPerWindow
  THEN [limited |-> TRUE, limiter |-> limiter]
  ELSE [limited |-> FALSE,
        limiter |-> [limiter EXCEPT ![ip].count = @ + 1,
                                    ![ip].admitted = @ + 1]]

\* isRateLimited(ip): the answer and the limiter afterwards; admitted
\* counts the connections of the address that got past the limiter since
\* lastReset
isRateLimited(limiter, ip) ==
  IF ip \notin DOMAIN limiter
  THEN [limited |-> FALSE,
        limiter |-> limiter @@ (ip :> [count |-> 1, lastReset |-> now,
                                       admitted |-> 1])]
  ELSE IF now - limiter[ip].lastReset > windowLength
  THEN [limited |-> FALSE,
        limiter |-> [limiter EXCEPT ![ip] = [count |-> 1, lastReset |-> now,
                                             admitted |-> 1]]]
  ELSE IF limiter[ip].count >= maxPerWindow
  THEN [limited |-> TRUE, limiter |-> limiter]
  ELSE [limited |-> FALSE,
        limiter |-> [limiter EXCEPT ![ip].count = @ + 1,
                                    ![ip].admitted = @ + 1]]

\* what a step of the connection layer leaves behind
Edge(op, c, result, what) ==
  [op |-> op, proc |-> P1, id |-> c, row |-> 0, col |-> 0, gcount |-> 0,
   result |-> result, msgType |-> what]

\* the game, the channel and the sync manager are left alone
GameIdle ==
  UNCHANGED <<game, channel, inbox, now, publishErrors, joinedConn,
              someoneLeft, connVars>>

BatchIdle == UNCHANGED <<messageQueue, batchTimer, flushed>>

\* handleNewConnectionWithRateLimit: a peer at address ip dials in on
\* socket c; whether the peer will answer pings is not known to the server
NewConnection(c, ip) ==
  /\ sockets[c].readyState \in {"NONE", "CLOSED"}
  /\ c \notin DOMAIN clients
  /\ LET r == isRateLimited(rateLimiter, ip)
     IN /\ rateLimiter' = r.limiter
        /\ IF r.limited
           THEN /\ sockets' = [sockets EXCEPT ![c] =
                                 [readyState |-> "CLOSED", answers |-> TRUE,
                                  broken |-> FALSE]]
                /\ last' = Edge("connect", c, Failed("Rate limited"), ip)
                /\ wire' = Silent
                /\ UNCHANGED clients
           ELSE IF Cardinality(DOMAIN clients) >= maxConnections
           THEN /\ sockets' = [sockets EXCEPT ![c] =
                                 [readyState |-> "CLOSED", answers |-> TRUE,
                                  broken |-> FALSE]]
                /\ last' = Edge("connect", c, Failed("Server overloaded"), ip)
                /\ wire' = Silent
                /\ UNCHANGED clients
           ELSE /\ \E ans \in BOOLEAN :
                     sockets' = [sockets EXCEPT ![c] =
                                   [readyState |-> "OPEN", answers |-> ans,
                                    broken |-> FALSE]]
                /\ clients' = clients @@
                                (c :> [ip |-> ip, lastActivity |-> now,
                                       messageCount |-> 0, handled |-> 0,
                                       isAlive |-> TRUE])
                /\ last' = Edge("connect", c, Done, ip)
                /\ wire' = [Silent EXCEPT ![c] = <<"connected", "gameState">>]
  /\ outbox' = wire'[c]
  /\ GameIdle
  /\ BatchIdle
  /\ UNCHANGED <<queueVars, told>>
  /\ UNCHANGED pc

\* a plausible slip: the ceiling is tested one message late
rateExceededLate(info) == info.messageCount > maxMessages + 1

\* the test of the counter of a connection against the ceiling
rateExceeded(info) == info.messageCount > maxMessages

\* handleMessageSafely: a frame of connection c arrives; handled counts the
\* frames of the connection that were parsed and queued for processMessage.
\* The WebSocket server is given maxPayload 16 KB, so that a "large" frame,
\* one longer than that, is not among the frames of the specifications.
MessageArrives(c, frame) ==
  /\ sockets[c].readyState = "OPEN"
  /\ c \in DOMAIN clients
  /\ IF frame.kind = "large"
     THEN /\ Reply(P1, Ident(c), frame, Failed("Message too large"), <<"error">>)
          /\ wire' = Wire(c, <<"error">>)
          /\ UNCHANGED <<clients, sockets>>
     ELSE LET count == clients[c].messageCount + 1
          IN IF rateExceeded([clients[c] EXCEPT !.messageCount = count])
             THEN /\ clients' = [clients EXCEPT ![c].messageCount = count]
                  /\ Reply(P1, Ident(c), frame, Failed("Message rate exceeded"),
                           <<"error">>)
                  /\ wire' = Wire(c, <<"error">>)
                  /\ sockets' = [sockets EXCEPT ![c].readyState = "CLOSING"]
             ELSE /\ \E g \in OfflineCounts : HandleMessage(P1, Ident(c), frame, g)
                  /\ clients' =
                       [clients EXCEPT
                          ![c].messageCount = count,
                          ![c].handled =
                             IF frame.kind = "notJson" THEN @ ELSE @ + 1,
                          ![c].lastActivity =
                             IF frame.kind = "notJson" THEN @ ELSE now]
                  /\ wire' = Wire(c, outbox')
                  /\ UNCHANGED sockets
  /\ BatchIdle
  /\ UNCHANGED <<queueVars, told>>
  /\ UNCHANGED <<rateLimiter, pc>>

\* the 'close' event of socket c, the peer having closed it or the close
\* the server asked for being done: handleDisconnectionSafely
Closed(c) ==
  /\ sockets[c].readyState \in {"OPEN", "CLOSING"}
  /\ sockets' = [sockets EXCEPT ![c].readyState = "CLOSED"]
  /\ IF c \in DOMAIN clients /\ Ident(c) \in joinedConn[P1]
     THEN /\ HandleDisconnect(P1, Ident(c))
          /\ wire' = [Wire(c, <<"gameState">>) EXCEPT ![c] = <<>>]
     ELSE /\ last' = Edge("close", c, Done, "none")
          /\ outbox' = <<>>
          /\ wire' = Silent
          /\ GameIdle
  /\ clients' = Drop(clients, {c})
  /\ BatchIdle
  /\ UNCHANGED <<queueVars, told>>
  /\ UNCHANGED <<rateLimiter, pc>>

\* the peer of c sends a pong frame, asked for or not
Pong(c) ==
  /\ sockets[c].readyState = "OPEN"
  /\ c \in DOMAIN clients
  /\ clients' = [clients EXCEPT ![c].isAlive = TRUE, ![c].lastActivity = now]
  /\ last' = Edge("pong", c, Done, "none")
  /\ outbox' = <<>>
  /\ wire' = Silent
  /\ GameIdle
  /\ BatchIdle
  /\ UNCHANGED <<queueVars, told>>
  /\ UNCHANGED <<sockets, rateLimiter, pc>>

\* ws.send of connection c starts to throw
SocketBreaks(c) ==
  /\ sockets[c].readyState = "OPEN"
  /\ ~sockets[c].broken
  /\ sockets' = [sockets EXCEPT ![c].broken = TRUE]
  /\ last' = Edge("break", c, Done, "none")
  /\ outbox' = <<>>
  /\ wire' = Silent
  /\ GameIdle
  /\ BatchIdle
  /\ UNCHANGED <<queueVars, told>>
  /\ UNCHANGED <<clients, rateLimiter, pc>>

\* performHealthCheck(): every open connection is marked as not alive and
\* pinged
performHealthCheck(reg) ==
  [c \in DOMAIN reg |->
     IF sockets[c].readyState = "OPEN"
     THEN [reg[c] EXCEPT !.isAlive = FALSE] ELSE reg[c]]

RECURSIVE removePlayers(_, _)
removePlayers(g, ids) ==
  IF ids = {} THEN g
  ELSE LET id == CHOOSE x \in ids : TRUE
       IN removePlayers(removePlayer(g, id), ids \ {id})

\* a plausible slip: only the connections idle for half an hour are stale
cleanupOnlyIdle(reg, g) ==
  LET stale == {c \in DOMAIN reg : now - reg[c].lastActivity > staleThreshold}
  IN [clients |-> Drop(reg, stale), terminated |-> stale,
      game |-> removePlayers(g, {Ident(c) : c \in stale} \cap joinedConn[P1])]

\* cleanupStaleConnections(): the connections it terminates, the registry
\* and the game afterwards
cleanupStaleConnections(reg, g) ==
  LET stale == {c \in DOMAIN reg :
                  \/ ~reg[c].isAlive
                  \/ now - reg[c].lastActivity > staleThreshold}
  IN [clients |-> Drop(reg, stale), terminated |-> stale,
      game |-> removePlayers(g, {Ident(c) : c \in stale} \cap joinedConn[P1])]

\* the callback of the 30 s interval of startHealthMonitoring(); last
\* keeps the number of participants the clean-up removed
HealthCheck ==
  LET r == cleanupStaleConnections(performHealthCheck(clients), game[P1])
  IN /\ clients' = r.clients
     /\ sockets' = [c \in Conns |->
                      IF c \in r.terminated
                      THEN [sockets[c] EXCEPT !.readyState = "CLOSED"]
                      ELSE sockets[c]]
     /\ game' = [game EXCEPT ![P1] = r.game]
     /\ joinedConn' = [joinedConn EXCEPT
                         ![P1] = @ \ {Ident(c) : c \in r.terminated}]
     /\ someoneLeft' =
          (someoneLeft \/ \E c \in r.terminated : Ident(c) \in joinedConn[P1])
     /\ last' = [Edge("health", "none", Done, "none") EXCEPT
                   !.gcount = Cardinality({c \in r.terminated :
                                             Ident(c) \in joinedConn[P1]})]
     /\ outbox' = <<>>
     /\ wire' = Silent
     /\ BatchIdle
     /\ UNCHANGED <<queueVars, told>>
     /\ UNCHANGED <<channel, inbox, now, publishErrors, connVars, rateLimiter, pc>>

\* the frames each connection sends in one behaviour of SpecHealth, and
\* the connections one address opens
MaxFrames == 1
MaxDials == 3

\* the connections of SpecHealth
HealthConns == {"c1", "c2"}

\* the clients of server-3001 connect, join, answer or do not answer the
\* pings, and leave, while the health check runs
NextHealth ==
  \/ \E c \in HealthConns, ip \in {"10.0.0.1"} :
       /\ ip \in DOMAIN rateLimiter => rateLimiter[ip].count < MaxDials
       /\ NewConnection(c, ip)
  \/ \E c \in HealthConns :
       /\ c \in DOMAIN clients
       /\ clients[c].messageCount < MaxFrames
       /\ MessageArrives(c, Frame("join", 0, 0))
  \/ \E c \in HealthConns : Pong(c)
  \/ \E c \in HealthConns : Closed(c)
  \/ HealthCheck

SpecHealth == Init /\ [][NextHealth]_vars /\ WF_vars(HealthCheck)

\* the same clients and the same health check on a server-3001 whose sync
\* manager is connected to the broker
SpecSweep == Started /\ [][NextHealth]_vars /\ WF_vars(HealthCheck)

\* the instant (ms) after which the clock of SpecAdmit stands still
MaxWindowTime == 130000

\* half a window of the limiter passes
WindowTick ==
  /\ now' = now + windowLength \div 2
  /\ now' <= MaxWindowTime
  /\ last' = Edge("tick", "none", Done, "none")
  /\ outbox' = <<>>
  /\ wire' = Silent
  /\ BatchIdle
  /\ UNCHANGED <<queueVars, told>>
  /\ UNCHANGED <<game, channel, inbox, publishErrors, joinedConn, someoneLeft,
                 connVars, clients, sockets, rateLimiter, pc>>

\* one address dials again and again on one socket, which its peer closes
\* in between, while a second address dials a few times
NextAdmit ==
  \/ \E ip \in Addrs :
       /\ (ip # "10.0.0.1" /\ ip \in DOMAIN rateLimiter) =>
            rateLimiter[ip].count < MaxDials
       /\ NewConnection("c1", ip)
  \/ Closed("c1")
  \/ WindowTick

SpecAdmit == Init /\ [][NextAdmit]_vars

\* the frames a connection sends in one behaviour of SpecMessages
MaxSent == 102

MessageFrames ==
  {Frame(k, 0, 0) : k \in {"join", "ping", "notJson"}}

\* one connection sends frame after frame, and dials again when it has
\* been closed
NextMessages ==
  \/ /\ "10.0.0.1" \in DOMAIN rateLimiter =>
          rateLimiter["10.0.0.1"].count < MaxDials - 1
     /\ NewConnection("c1", "10.0.0.1")
  \/ \E frame \in MessageFrames :
       /\ "c1" \in DOMAIN clients
       /\ clients["c1"].messageCount < MaxSent
       /\ MessageArrives("c1", frame)
  \/ Closed("c1")

SpecMessages == Init /\ [][NextMessages]_vars

\* two connections come and go, join and reset the game, and the socket
\* of either may start to fail
NextBroadcast ==
  \/ \E c \in HealthConns :
       /\ "10.0.0.1" \in DOMAIN rateLimiter =>
            rateLimiter["10.0.0.1"].count < MaxDials
       /\ NewConnection(c, "10.0.0.1")
  \/ \E c \in HealthConns, kind \in {"join", "reset"} :
       /\ c \in DOMAIN clients
       /\ clients[c].messageCount < MaxFrames + 1
       /\ MessageArrives(c, Frame(kind, 0, 0))
  \/ \E c \in HealthConns : SocketBreaks(c)
  \/ \E c \in HealthConns : Closed(c)

SpecBroadcast == Init /\ [][NextBroadcast]_vars

----------------------------------------------------------------------------
(* EnhancedRedisSyncManager of server-3001: the queue of publishMessage,   *)
(* the debounce timer of triggerBatchProcess and processBatch. The specs   *)
(* above hand an event to the broker in the step that publishes it; here   *)
(* it waits in messageQueue. The 5 s interval of startBatchProcessor does  *)
(* not come due within the time SpecBatch covers.                          *)

batchSize == 10
batchTimeout == 100

\* the events published in one behaviour of SpecBatch, the instant (ms)
\* after which its clock stands still, and the longest step of that clock
MaxBatched == 11
MaxBatchTime == 260
MaxBatchStep == 50

\* processBatch() on the given queue: up to batchSize events are taken from
\* its head and published; flushed keeps how long each had been queued
processBatch(queue) ==
  IF queue = <<>>
  THEN /\ messageQueue' = queue
       /\ UNCHANGED <<channel, inbox, publishErrors, flushed>>
  ELSE LET n == Min(Len(queue), batchSize)
           batch == SubSeq(queue, 1, n)
       IN /\ messageQueue' = SubSeq(queue, n + 1, Len(queue))
          /\ flushed' = [i \in 1..n |-> now - batch[i].timestamp]
          /\ IF brokerUp
             THEN /\ channel' = channel \cup {batch[i] : i \in 1..n}
                  /\ inbox' = [q \in Procs |-> inbox[q] \o batch]
                  /\ publishErrors' = [publishErrors EXCEPT ![P1] = 0]
             ELSE /\ publishErrors' = [publishErrors EXCEPT ![P1] = @ + n]
                  /\ UNCHANGED <<channel, inbox>>

\* triggerBatchProcess() once the event is in the queue: the pending timer
\* is cleared; a full queue is processed at once, otherwise the timer is
\* set anew
triggerBatchProcess(queue) ==
  IF Len(queue) >= batchSize
  THEN /\ processBatch(queue)
       /\ batchTimer' = NoTimer
  ELSE /\ messageQueue' = queue
       /\ batchTimer' = now + batchTimeout
       /\ UNCHANGED <<channel, inbox, publishErrors, flushed>>

\* publishMessage(message) with its queue
PublishQueued(message) ==
  /\ IF ~isConnected[P1] \/ circuitBreaker[P1].state = "OPEN"
     THEN UNCHANGED <<messageQueue, batchTimer, channel, inbox, publishErrors,
                      flushed>>
     ELSE triggerBatchProcess(
            Append(messageQueue, [message EXCEPT !.timestamp = now]))
  /\ last' = Edge("publish", "none", Done, message.type)
  /\ outbox' = <<>>
  /\ UNCHANGED <<game, now, joinedConn, someoneLeft, connVars, clients,
                 sockets, rateLimiter, wire, queueVars, told, pc>>

\* the batch timer is due: its callback runs processBatch()
BatchTimerFires ==
  /\ batchTimer # NoTimer
  /\ batchTimer <= now
  /\ processBatch(messageQueue)
  /\ batchTimer' = NoTimer
  /\ last' = Edge("flush", "none", Done, "none")
  /\ outbox' = <<>>
  /\ UNCHANGED <<game, now, joinedConn, someoneLeft, connVars, clients,
                 sockets, rateLimiter, wire, queueVars, told, pc>>

\* time passes, but not beyond the instant the batch timer is due
BatchTick ==
  /\ batchTimer # NoTimer => now < batchTimer
  /\ now' = IF batchTimer # NoTimer /\ batchTimer < now + MaxBatchStep
            THEN batchTimer ELSE now + MaxBatchStep
  /\ now' <= MaxBatchTime
  /\ last' = Edge("tick", "none", Done, "none")
  /\ outbox' = <<>>
  /\ UNCHANGED <<game, channel, inbox, publishErrors, joinedConn, someoneLeft,
                 connVars, edgeVars, pc>>

\* server-3001 publishes resets at any pace
NextBatch ==
  \/ /\ Len(inbox[P1]) + Len(messageQueue) < MaxBatched
     /\ PublishQueued(Event("gameReset", P1, "none", FALSE, NewGame))
  \/ BatchTimerFires
  \/ BatchTick

SpecBatch == Started /\ [][NextBatch]_vars

\* the connections of both servers send frames of every kind while the
\* sync managers are connected, from a fresh start or from the scripted
\* game
NextOnline ==
  \E id \in Players, frame \in ClientFrames, g \in requestGameSync :
    \E p \in Home(id) :
      HandleMessage(p, id, frame, g) /\ UNCHANGED <<pc, edgeVars>>

SpecOnline ==
  /\ StartedAfter(0) \/ StartedAfter(Len(Script) - 1)
  /\ [][NextOnline]_vars

----------------------------------------------------------------------------
(* EnhancedTicTacToeServer: queueMessage and processMessageQueue, with the *)
(* await of the join handler made visible. processMessageQueue starts the  *)
(* handlers of a batch one after the other (Promise.all over batch.map):   *)
(* each runs up to its first await before the next one starts. The join    *)
(* handler awaits requestGameSync() before it calls addPlayer; the move    *)
(* handler has acted on the game before its first await. The sync manager  *)
(* is not connected in SpecQueue, so that every publish call returns at    *)
(* once.                                                                   *)

queueBatchSize == 10

\* the frames of SpecQueue, and how many arrive in one behaviour
QueueFrames == {Frame("join", 0, 0), Frame("move", 0, 0)}
MaxArrivals == 4

\* a frame of connection c, the n-th frame to arrive at the server
Queued(c, frame, n) == [c |-> c, frame |-> frame, n |-> n]

\* the frames that have arrived so far
Arrived == Len(applied) + Len(serverQueue) + Cardinality(suspended)

\* the answer to a frame whose handler has acted
Answer(m, success) ==
  [c |-> m.c, n |-> m.n, kind |-> m.frame.kind, success |-> success]

\* w, and then what Wire(c, out) gets through
Sent(w, c, out) == [d \in Conns |-> w[d] \o Wire(c, out)[d]]

\* the handlers of batch[i..] run up to their first await, in the order of
\* the batch; st is the game, the messages sent, the answers and the
\* suspended handlers so far
RECURSIVE runBatch(_, _, _)
runBatch(st, batch, i) ==
  IF i > Len(batch) THEN st
  ELSE LET m == batch[i]
           id == Ident(m.c)
       IN IF m.frame.kind = "join"
          THEN runBatch([st EXCEPT !.suspended = @ \cup {m}], batch, i + 1)
          ELSE IF id \notin joinedConn[P1]
          THEN runBatch([st EXCEPT
                           !.wire = Sent(@, m.c, <<"error">>),
                           !.applied = Append(@, Answer(m, FALSE))],
                        batch, i + 1)
          ELSE LET r == makeMove(st.game, m.frame.row, m.frame.col, id)
                   out == IF ~r.result.success THEN <<"error">>
                          ELSE IF r.result.gameOver
                          THEN <<"gameState", "gameOver">>
                          ELSE <<"gameState">>
               IN runBatch([st EXCEPT
                              !.game = r.game,
                              !.wire = Sent(@, m.c, out),
                              !.applied = Append(@, Answer(m, r.result.success))],
                           batch, i + 1)

\* one round of the loop of processMessageQueue() on the given queue; when
\* no handler of the batch waits and the queue is empty the loop ends
\* before anything else happens
startBatch(queue) ==
  LET n == Min(Len(queue), queueBatchSize)
      st == runBatch([game |-> game[P1], wire |-> Silent, applied |-> applied,
                      suspended |-> {}],
                     SubSeq(queue, 1, n), 1)
  IN /\ serverQueue' = SubSeq(queue, n + 1, Len(queue))
     /\ isProcessingQueue' = (st.suspended # {} \/ n < Len(queue))
     /\ game' = [game EXCEPT ![P1] = st.game]
     /\ wire' = st.wire
     /\ applied' = st.applied
     /\ suspended' = st.suspended

\* what the steps of the queue leave alone
QueueFrame ==
  /\ outbox' = <<>>
  /\ UNCHANGED <<channel, inbox, now, publishErrors, joinedConn, someoneLeft,
                 connVars, sockets, rateLimiter, messageQueue, batchTimer,
                 flushed, told, pc>>

\* handleMessageSafely and queueMessage: the frame is counted and queued,
\* and processMessageQueue() is started unless it is running
MessageQueued(c, frame) ==
  /\ sockets[c].readyState = "OPEN"
  /\ c \in DOMAIN clients
  /\ ~rateExceeded([clients[c] EXCEPT !.messageCount = @ + 1])
  /\ clients' = [clients EXCEPT ![c].messageCount = @ + 1,
                                ![c].handled = @ + 1,
                                ![c].lastActivity = now]
  /\ LET queue == Append(serverQueue, Queued(c, frame, Arrived + 1))
     IN IF isProcessingQueue
        THEN /\ serverQueue' = queue
             /\ wire' = Silent
             /\ UNCHANGED <<game, suspended, isProcessingQueue, applied>>
        ELSE startBatch(queue)
  /\ last' = Edge("queued", c, Done, frame.kind)
  /\ QueueFrame

\* requestGameSync() of a suspended join handler returns g: the rest of
\* handlePlayerJoinEnhanced runs, and with the last handler of the batch
\* and an empty queue the loop of processMessageQueue() ends
JoinResumes(m, g) ==
  /\ m \in suspended
  /\ HandleJoin(P1, Ident(m.c), g)
  /\ wire' = Wire(m.c, outbox')
  /\ suspended' = suspended \ {m}
  /\ applied' = Append(applied, Answer(m, last'.result.success))
  /\ isProcessingQueue' = (suspended' # {} \/ serverQueue # <<>>)
  /\ UNCHANGED <<clients, sockets, rateLimiter, messageQueue, batchTimer,
                 flushed, serverQueue, told, pc>>

\* every handler of the batch has returned and the queue is not empty:
\* after its sleep of 1 ms the loop of processMessageQueue() goes round
\* again
BatchDone ==
  /\ isProcessingQueue
  /\ suspended = {}
  /\ serverQueue # <<>>
  /\ startBatch(serverQueue)
  /\ last' = Edge("batch", "none", Done, "none")
  /\ UNCHANGED clients
  /\ QueueFrame

\* two connections dial in and send joins and moves at any pace
NextQueue ==
  \/ \E c \in HealthConns :
       /\ "10.0.0.1" \in DOMAIN rateLimiter =>
            rateLimiter["10.0.0.1"].count < Cardinality(HealthConns)
       /\ NewConnection(c, "10.0.0.1")
  \/ \E c \in HealthConns, frame \in QueueFrames :
       /\ Arrived < MaxArrivals
       /\ MessageQueued(c, frame)
  \/ \E m \in suspended, g \in OfflineCounts : JoinResumes(m, g)
  \/ BatchDone

SpecQueue == Init /\ [][NextQueue]_vars

----------------------------------------------------------------------------
(* Vocabulary of the properties, stated without the code's helpers         *)

\* the eight winning lines as sets of cells
WinLines ==
  {{<<r, c>> : c \in 0..2} : r \in 0..2} \cup
  {{<<r, c>> : r \in 0..2} : c \in 0..2} \cup
  {{<<i, i>> : i \in 0..2}, {<<i, 2 - i>> : i \in 0..2}}

\* every cell of the line holds the mark
Holds(board, line, mark) == \A c \in line : board[c] = mark

SomeLineWon(board) ==
  \E line \in WinLines, mark \in {"X", "O"} : Holds(board, line, mark)

NonEmptyCells(board) == {c \in Cells : board[c] # ""}

\* the mark a participant has by its position in the join order
MarkOf(g, id) ==
  IF Len(g.players) >= 1 /\ g.players[1] = id THEN "X"
  ELSE IF Len(g.players) >= 2 /\ g.players[2] = id THEN "O"
  ELSE "none"

AcceptedMove == last.op = "move" /\ last.result.success
LastCell == <<last.row, last.col>>
LastGame == game[last.proc]

----------------------------------------------------------------------------
\* C4: for each of the eight winning lines and each mark, an accepted move
\* that completes three identical marks on the line ends the game with
\* winner = that mark (in the game and in the returned result) and status
\* finished; an accepted move after which no line holds three identical
\* non-empty marks reports no winning mark.
C4_WinDetection ==
  AcceptedMove =>
    LET mark == LastGame.board[LastCell]
    IN /\ mark \in {"X", "O"}
       /\ \A line \in WinLines :
            (LastCell \in line /\ Holds(LastGame.board, line, mark)) =>
              /\ LastGame.winner = mark
              /\ LastGame.gameStatus = "finished"
              /\ last.result.gameOver
              /\ last.result.winner = mark
       /\ ~SomeLineWon(LastGame.board) =>
              /\ last.result.winner \notin {"X", "O"}
              /\ LastGame.winner \notin {"X", "O"}

\* O has just completed the anti-diagonal, the last line the code looks at
C4_Witness ==
  /\ AcceptedMove
  /\ LastCell \in {<<i, 2 - i>> : i \in 0..2}
  /\ Holds(LastGame.board, {<<i, 2 - i>> : i \in 0..2}, "O")
  /\ last.result.winner = "O"

\* the last accepted move filled the ninth cell and no line is complete
DrawnByLastMove ==
  /\ AcceptedMove
  /\ NonEmptyCells(LastGame.board) = Cells
  /\ ~SomeLineWon(LastGame.board)

\* C5: when an accepted move fills the ninth cell and no winning line
\* exists, the game ends with status finished and winner = draw.
C5_Draw ==
  DrawnByLastMove =>
    /\ LastGame.gameStatus = "finished"
    /\ LastGame.winner = "draw"

\* the reasons for which a move has to be rejected
MustReject(g, row, col, id) ==
  \/ g.gameStatus # "playing"
  \/ MarkOf(g, id) \in {"X", "O"} /\ MarkOf(g, id) # g.currentPlayer
  \/ row \notin 0..2
  \/ col \notin 0..2
  \/ <<row, col>> \in Cells /\ g.board[<<row, col>>] # ""

C9_WinnerImpliesFinished ==
  \A p \in Procs : game[p].winner # "null" => game[p].gameStatus = "finished"

\* C10: moveCount equals the number of non-empty board cells and lies in
\* 0..9.
C10_MoveCount ==
  \A p \in Procs :
    /\ game[p].moveCount = Cardinality(NonEmptyCells(game[p].board))
    /\ game[p].moveCount \in 0..9

\* the snapshot of the fifth move has just been applied by the peer
C10_Witness ==
  /\ last.op = "recv"
  /\ last.msgType = "move"
  /\ last.id # last.proc
  /\ LastGame.moveCount = 5
  /\ Cardinality(NonEmptyCells(LastGame.board)) = 5

----------------------------------------------------------------------------
\* the scripted game is over on P1 and P2 has been handed every event that
\* P1 published
WinReplicated ==
  /\ pc = Len(Script)
  /\ \A i \in 1..Len(inbox[P2]) : inbox[P2][i].serverId # P1

\* C1: X joins on P1, O joins on P2, X plays (0,0),(0,1),(0,2) on P1
\* interleaved with O playing (1,0),(1,1) on P2; once the winning move has
\* been processed on P1 and its event has been delivered to P2, the game of
\* P2 has winner X and status finished.
C1_EndToEnd ==
  WinReplicated =>
    /\ game[P2].winner = "X"
    /\ game[P2].gameStatus = "finished"

C1_Witness ==
  /\ WinReplicated
  /\ game[P1].winner = "X"
  /\ game[P2].winner = "X"
  /\ Holds(game[P2].board, {<<0, c>> : c \in 0..2}, "X")

\* an event of the peer of p whose snapshot is older than the game of p:
\* strictly fewer moves and no more participants
Stale(p, data) ==
  /\ data.serverId # p
  /\ data.hasState
  /\ data.gameState.moveCount < game[p].moveCount
  /\ Len(data.gameState.players) <= Len(game[p].players)

\* C2: handling a peer event whose snapshot has a strictly smaller moveCount
\* and equal-or-fewer participants than the local game (a repeated or
\* reordered older snapshot included) leaves the local game as it was.
C2_StaleSnapshotNoOp ==
  [][\A p \in Procs : \A data \in channel :
       (Deliver(p, data) /\ Stale(p, data)) => game'[p] = game[p]]_vars

\* C3: once every published event has been delivered to the other process
\* (and no client acts meanwhile), both processes hold the same game.
C3_Convergence ==
  (\A p \in Procs : inbox[p] = <<>>) => game[P1] = game[P2]

\* C7: while nobody has left, a join by a new participant that is handled
\* with the global count equal to the number of participants joined
\* anywhere is accepted with X when that number is 0 and with O when it is
\* 1, whichever process handles it; with two participants joined it is
\* rejected and leaves the participants of the handling process unchanged.
C7_SymbolAssignment ==
  [][\A id \in Players, g \in requestGameSync : \A p \in Home(id) :
       (/\ HandleJoin(p, id, g)
        /\ id \notin JoinedAnywhere
        /\ g = Cardinality(JoinedAnywhere)) =>
         /\ (g = 0 /\ ~someoneLeft) =>
               last'.result.success /\ last'.result.playerSymbol = "X"
         /\ (g = 1 /\ ~someoneLeft) =>
               last'.result.success /\ last'.result.playerSymbol = "O"
         /\ g >= 2 =>
               ~last'.result.success /\ game'[p].players = game[p].players]_vars

\* the second participant has joined on P2 as O while the first is joined
\* on P1, the count supplied being 1
C7_Witness ==
  /\ last.op = "join"
  /\ last.proc = P2
  /\ last.gcount = 1
  /\ last.result.success
  /\ last.result.playerSymbol = "O"
  /\ joinedConn[P1] # {}
  /\ Cardinality(JoinedAnywhere) = 2
  /\ ~someoneLeft

\* C8 as stated: status is playing if and only if exactly two participants
\* are present.
C8_PlayingIffTwo ==
  \A p \in Procs :
    game[p].gameStatus = "playing" <=> Len(game[p].players) = 2

\* C8 amended: status playing implies exactly two participants, and two
\* participants imply status playing or finished.
C8_PlayingImpliesTwo ==
  \A p \in Procs :
    /\ game[p].gameStatus = "playing" => Len(game[p].players) = 2
    /\ Len(game[p].players) = 2 => game[p].gameStatus \in {"playing", "finished"}

\* a participant has just left a running game, which went back to waiting
C8_Witness ==
  /\ last.op = "leave"
  /\ Len(LastGame.players) = 1
  /\ LastGame.gameStatus = "waiting"
  /\ LastGame.moveCount > 0

----------------------------------------------------------------------------
\* the step is an accepted call of makeMove that did not end the game
MoveGoesOn ==
  /\ last' # last
  /\ last'.op = "move"
  /\ last'.result.success
  /\ ~last'.result.gameOver

Other(mark) == IF mark = "X" THEN "O" ELSE "X"

\* C19: an accepted move that does not end the game places the mover's
\* mark in exactly the target cell, leaves every other cell unchanged,
\* increments moveCount by one and flips the turn to the other mark.
C19_AcceptedMoveEffect ==
  [][MoveGoesOn =>
       LET p == last'.proc
           cell == <<last'.row, last'.col>>
           mark == MarkOf(game[p], last'.id)
       IN /\ mark \in {"X", "O"}
          /\ game[p].board[cell] = ""
          /\ game'[p].board[cell] = mark
          /\ \A c \in Cells \ {cell} : game'[p].board[c] = game[p].board[c]
          /\ game'[p].moveCount = game[p].moveCount + 1
          /\ game[p].currentPlayer = mark
          /\ game'[p].currentPlayer = Other(mark)
          /\ game'[p].players = game[p].players
          /\ game'[p].gameStatus = "playing"
          /\ game'[p].winner = game[p].winner]_vars

\* O has just placed its fourth mark and the game goes on with X
C19_Witness ==
  /\ AcceptedMove
  /\ ~last.result.gameOver
  /\ LastGame.board[LastCell] = "O"
  /\ LastGame.moveCount = 8
  /\ LastGame.currentPlayer = "X"

\* C20: from any state, reset leaves the board empty, moveCount 0, winner
\* null and the turn on X, leaves the participants unchanged, and sets the
\* status to playing if exactly two participants are present and to
\* waiting otherwise.
C20_Reset ==
  [][\A p \in Procs :
       CallResetGame(p) =>
         /\ NonEmptyCells(game'[p].board) = {}
         /\ game'[p].moveCount = 0
         /\ game'[p].winner = "null"
         /\ game'[p].currentPlayer = "X"
         /\ game'[p].players = game[p].players
         /\ game'[p].gameStatus =
              IF Len(game[p].players) = 2 THEN "playing" ELSE "waiting"]_vars

\* a game that O had won and a participant had left has just been reset
C20_Witness ==
  /\ last.op = "reset"
  /\ Len(LastGame.players) = 1
  /\ LastGame.gameStatus = "waiting"
  /\ LastGame.currentPlayer = "X"
  /\ LastGame.winner = "null"

----------------------------------------------------------------------------
\* the snapshot is not of the shape of a game state: the board is not a
\* grid of three rows of three cells, the status is none of the three, or
\* the participants are not a list
Malformed(gs) ==
  \/ DOMAIN gs.board # Cells
  \/ gs.gameStatus \notin {"waiting", "playing", "finished"}
  \/ ~isArray(gs.players)

\* C15: an inbound replication event whose snapshot is malformed never
\* changes the local game state.
C15_MalformedIgnored ==
  [][\A p \in Procs, origin \in Procs, k \in Shapes : \A type \in SnapshotKinds :
       (/\ Inbound(p, InboundEvent(type, origin, k))
        /\ Malformed(InboundSnapshot(k))) =>
         game'[p] = game[p]]_vars

\* C16: a replication event whose origin is the receiving process itself
\* never changes the game of that process, whatever its kind.
C16_OwnEventsIgnored ==
  [][\A p \in Procs, k \in Shapes :
       \A type \in SnapshotKinds \cup PlainKinds \cup RequestKinds :
         Inbound(p, InboundEvent(type, p, k)) => game' = game]_vars

\* server-3001 has been handed a reset of its own and still holds the
\* marks of the game
C16_Witness ==
  /\ last.op = "recv"
  /\ last.proc = P1
  /\ last.id = P1
  /\ last.msgType = "gameReset"
  /\ game[P1] = MidGame

----------------------------------------------------------------------------
\* C17: when a server is asked for the game by a peer (SyncRequest, issued
\* by the peer on a join) while it holds a non-empty game, it answers with
\* a SyncResponse snapshot on the channel, from which the asking server
\* takes over the game.
C17_SyncRequestAnswered ==
  [][\A p \in Procs, origin \in Procs, k \in Shapes :
       (/\ origin # p
        /\ Inbound(p, InboundEvent("syncRequest", origin, k))
        /\ Len(game[p].players) > 0) =>
         \E e \in channel' \ channel :
           /\ e.type = "syncResponse"
           /\ e.serverId = p
           /\ e.hasState
           /\ e.gameState = getGameState(game[p])]_vars

----------------------------------------------------------------------------
\* C14: every client message the server does not apply (a rejected join or
\* move, a move before joining, an unknown or unparsable message, a handler
\* that fails internally) is answered with an error message to the
\* connection it came from.
C14_ErrorReply ==
  (last.op \in {"join", "move", "reset", "message"} /\ ~last.result.success) =>
    \E i \in 1..Len(outbox) : outbox[i] = "error"

----------------------------------------------------------------------------
\* C13: with the broker unreachable for the whole session, the two
\* participants of one server can both join (the first receiving X, the
\* second O) and every move of the participant whose turn it is to an empty
\* cell is applied, using only the local state of that server: nothing is
\* published and the other server's game is not touched.
C13_LocalPlay ==
  [][\A id \in GamePlayers :
         LET g == game[P1]
         IN /\ channel' = {}
            /\ game'[P2] = NewGame
            /\ (/\ ~has(g.players, id)
                /\ Len(g.players) < 2
                /\ HandleMessage(P1, id, Frame("join", 0, 0), 0)) =>
                  /\ last'.result.success
                  /\ last'.result.playerSymbol =
                       (IF Len(g.players) = 0 THEN "X" ELSE "O")
                  /\ game'[P1].players = Append(g.players, id)
            /\ \A c \in Cells :
                 (/\ g.gameStatus = "playing"
                  /\ MarkOf(g, id) = g.currentPlayer
                  /\ g.board[c] = ""
                  /\ HandleMessage(P1, id, Frame("move", c[1], c[2]), 0)) =>
                    /\ last'.result.success
                    /\ game'[P1].board[c] = MarkOf(g, id)]_vars

\* the two participants of the server that never reached the broker have
\* played a game to its end
C13_Witness ==
  /\ ~brokerUp
  /\ ~isConnected[P1]
  /\ game[P1].players = <<"a", "b">>
  /\ game[P1].gameStatus = "finished"
  /\ game[P1].winner = "O"
  /\ last.op = "move"
  /\ last.result.gameOver
  /\ game[P2] = NewGame

----------------------------------------------------------------------------
\* C18: if the connection to the broker fails at start-up, the process
\* does not crash: it comes to serve its clients without the broker, and by
\* then a reconnection has been scheduled.
C18_StartupFailure ==
  [][(pc # Serving /\ pc' = Serving /\ ~isConnected'[P1]) =>
       reconnectAttempts'[P1] > 0]_vars

----------------------------------------------------------------------------
\* C11: once as many publications in a row as the threshold of the circuit
\* breaker (5) have failed at the broker, the breaker is open.
C11_BreakerOpens ==
  \A p \in Procs :
    publishErrors[p] >= threshold => circuitBreaker[p].state = "OPEN"

----------------------------------------------------------------------------
\* the delay of the k-th reconnection in a row: the base delay doubled
\* each time, up to the cap
RECURSIVE Backoff(_)
Backoff(k) ==
  IF k <= 1 THEN reconnectDelay
  ELSE Min(2 * Backoff(k - 1), maxReconnectDelay)

\* C12: the delays of successive reconnections are 1000 ms, 2000 ms,
\* 4000 ms, ... capped at 30000 ms; no reconnection is scheduled beyond the
\* tenth, and the attempt counter never exceeds 10.
C12_Backoff ==
  [][\A p \in Procs :
       /\ reconnectAttempts'[p] <= maxReconnectAttempts
       /\ \A t \in timers'[p] \ timers[p] :
            t.kind = "reconnect" =>
              /\ t.attempt <= maxReconnectAttempts
              /\ t.delay = Backoff(t.attempt)]_vars

----------------------------------------------------------------------------
NotPlaying(g) == g.gameStatus # "playing"
WrongTurn(g, id) == MarkOf(g, id) # g.currentPlayer
OutOfBounds(row, col) == row \notin 0..2 \/ col \notin 0..2
Occupied(g, row, col) == <<row, col>> \in Cells /\ g.board[<<row, col>>] # ""

\* C21: the reason a move is rejected with follows a fixed order of the
\* rules it breaks: not playing comes first, then wrong turn, then out of
\* bounds, then cell occupied.
C21_RejectionOrder ==
  last.op = "validate" =>
    LET g == game[last.proc]
        reason == last.result.message
    IN /\ NotPlaying(g) => reason = "Game is not in playing state"
       /\ (~NotPlaying(g) /\ WrongTurn(g, last.id)) =>
            reason = "It's not your turn"
       /\ (/\ ~NotPlaying(g) /\ ~WrongTurn(g, last.id)
           /\ OutOfBounds(last.row, last.col)) =>
            reason = "Move out of bounds"
       /\ (/\ ~NotPlaying(g) /\ ~WrongTurn(g, last.id)
           /\ ~OutOfBounds(last.row, last.col)
           /\ Occupied(g, last.row, last.col)) =>
            reason = "Cell is already occupied"

\* a move out of turn onto an occupied cell has been turned away as out of
\* turn
C21_Witness ==
  /\ last.op = "validate"
  /\ ~NotPlaying(game[last.proc])
  /\ WrongTurn(game[last.proc], last.id)
  /\ Occupied(game[last.proc], last.row, last.col)
  /\ last.result.message = "It's not your turn"

----------------------------------------------------------------------------
\* the participants of g, in their order, without id
Without(players, id) ==
  SelectSeq(players, LAMBDA x : x # id)

\* C22: a leave never fails, for a member or for any other identifier: it
\* takes the identifier out of the participants, turns a playing game with
\* fewer than two participants left into a waiting one, and leaves board,
\* moveCount, turn and winner as they were.
C22_Leave ==
  [][\A id \in GamePlayers :
       (last'.op = "leave" /\ CallRemovePlayer(P1, id)) =>
         LET g == game[P1]
             h == game'[P1]
         IN /\ last'.result.success
            /\ h.players = Without(g.players, id)
            /\ h.gameStatus =
                 (IF g.gameStatus = "playing" /\ Len(h.players) < 2
                  THEN "waiting" ELSE g.gameStatus)
            /\ h.board = g.board
            /\ h.moveCount = g.moveCount
            /\ h.currentPlayer = g.currentPlayer
            /\ h.winner = g.winner]_vars

\* the second participant has left a game under way: one participant is
\* left waiting, the marks are still on the board and it is O's turn
C22_Witness ==
  /\ last.op = "leave"
  /\ last.id = "b"
  /\ game[P1].players = <<"a">>
  /\ game[P1].gameStatus = "waiting"
  /\ game[P1].moveCount = 3
  /\ game[P1].currentPlayer = "O"

----------------------------------------------------------------------------
\* the breaker of server-3001
Breaker == circuitBreaker[P1]

\* the breaker is open and its cooldown has not run out / has run out
CoolingDown == Breaker.state = "OPEN" /\ now - Breaker.lastFailure < breakerTimeout
CooledDown == Breaker.state = "OPEN" /\ now - Breaker.lastFailure >= breakerTimeout

\* the step is a timer callback of server-3001 that calls initialize()
CallsInitialize ==
  \E t \in timers[P1] :
    TimerFires(P1, t) /\ (t.kind = "start" \/ ~isConnected[P1])

\* the step tries to connect to the broker
Attempts == lastConnectionAttempt'[P1] # lastConnectionAttempt[P1]

\* C23: the breaker starts closed; it is open as soon as the failure count
\* reaches the threshold; while it is open and its cooldown has not run
\* out no connection to the broker is attempted; the first call of
\* initialize() after the cooldown takes it to half-open and tries the
\* connection.
C23_BreakerCycle ==
  /\ Init => Breaker.state = "CLOSED" /\ Breaker.failures = 0
  /\ [][/\ (/\ circuitBreaker'[P1].failures > Breaker.failures
             /\ circuitBreaker'[P1].failures >= threshold) =>
              circuitBreaker'[P1].state = "OPEN"
        /\ CoolingDown => ~Attempts
        /\ (CooledDown /\ CallsInitialize) =>
              /\ Attempts
              /\ lastConnectionAttempt'[P1] = now
              /\ circuitBreaker'[P1].attemptState = "HALF_OPEN"]_vars

\* the breaker has been opened by the errors of the Redis clients, the
\* timers that came due during the cooldown have connected nothing, and
\* the one after it has tried the broker from half-open
C23_Witness ==
  /\ Breaker.attemptState = "HALF_OPEN"
  /\ Breaker.failures >= threshold
  /\ lastConnectionAttempt[P1] = now
  /\ now - breakerTimeout > 0

\* C24: from half-open, a trial connection that succeeds closes the
\* breaker and clears the failure count; one that fails opens it again, the
\* cooldown running anew from the time of that failure.
C24_Trial ==
  [][(Attempts /\ circuitBreaker'[P1].attemptState = "HALF_OPEN") =>
       IF brokerUp
       THEN /\ circuitBreaker'[P1].state = "CLOSED"
            /\ circuitBreaker'[P1].failures = 0
            /\ isConnected'[P1]
       ELSE /\ circuitBreaker'[P1].state = "OPEN"
            /\ circuitBreaker'[P1].lastFailure = now]_vars

\* a trial from half-open has connected: the breaker is closed again
C24_Witness ==
  /\ Breaker.attemptState = "HALF_OPEN"
  /\ Breaker.state = "CLOSED"
  /\ Breaker.failures = 0
  /\ isConnected[P1]
  /\ lastConnectionAttempt[P1] = now

\* a trial from half-open has failed: the breaker is open again and its
\* cooldown runs from the time of the trial
C24_FailedTrial ==
  /\ Breaker.attemptState = "HALF_OPEN"
  /\ Breaker.state = "OPEN"
  /\ Breaker.lastFailure = lastConnectionAttempt[P1]
  /\ lastConnectionAttempt[P1] = now

----------------------------------------------------------------------------
\* the events published for the accepted actions of the clients
ActionEvents == {"playerJoin", "move", "playerLeave", "gameReset"}

\* C25: every event published for an accepted join, move, leave or reset
\* carries the snapshot of the game after the action, and a server that
\* has just been handed such an event of its peer holds the snapshot of
\* one of the events of that kind.
C25_SnapshotCarried ==
  /\ \A e \in channel : e.type \in ActionEvents => e.hasState
  /\ (/\ last.op = "recv"
      /\ last.msgType \in ActionEvents
      /\ last.id # last.proc) =>
        \E e \in channel :
          /\ e.type = last.msgType
          /\ e.hasState
          /\ getGameState(game[last.proc]) = e.gameState

----------------------------------------------------------------------------
\* the participants of the game of server-3001
Participants(g) == {g.players[i] : i \in DOMAIN g.players}

\* connection c is registered and open, and its peer answers no ping
Unanswering(c) ==
  /\ c \in DOMAIN clients
  /\ sockets[c].readyState = "OPEN"
  /\ ~sockets[c].answers

\* C26: a registered connection whose peer does not answer the ping of the
\* health check is terminated and taken out of the registry by that
\* check, and the participant it had joined as is taken out of the game;
\* and the check comes for every such connection.
C26_Unanswered ==
  /\ [][last'.op = "health" =>
          \A c \in Conns :
            Unanswering(c) =>
              /\ sockets'[c].readyState = "CLOSED"
              /\ c \notin DOMAIN clients'
              /\ Ident(c) \in joinedConn[P1] =>
                    Ident(c) \notin Participants(game'[P1])]_vars
  /\ \A c \in HealthConns : Unanswering(c) ~> (c \notin DOMAIN clients)

\* the health check has just terminated connection c2, whose peer answers
\* no ping, and has taken its participant out of the game
C26_Witness ==
  /\ last.op = "health"
  /\ last.gcount = 1
  /\ sockets["c2"].readyState = "CLOSED"
  /\ ~sockets["c2"].answers
  /\ "c2" \notin DOMAIN clients
  /\ "b" \notin Participants(game[P1])
  /\ someoneLeft

----------------------------------------------------------------------------
\* the window of address ip is running: the limiter has seen the address
\* and no more than 60 s have passed since the window began
WindowRunning(ip) ==
  /\ ip \in DOMAIN rateLimiter
  /\ now - rateLimiter[ip].lastReset <= windowLength

\* C27: of the connections an address opens within one window of 60 s,
\* which begins with the first connection after the window before it has
\* run out, the first 30 are admitted and every further one is rejected;
\* the first connection after the window has run out is admitted and
\* begins the count anew; the windows and counts of the other addresses
\* are not touched.
C27_Window ==
  /\ [](\A ip \in DOMAIN rateLimiter : rateLimiter[ip].admitted <= maxPerWindow)
  /\ [][last'.op = "connect" =>
          LET ip == last'.msgType
              full == WindowRunning(ip) /\ rateLimiter[ip].admitted = maxPerWindow
          IN /\ last'.result.success <=> ~full
             /\ full => /\ last'.result.message = "Rate limited"
                        /\ clients' = clients
                        /\ rateLimiter' = rateLimiter
             /\ (WindowRunning(ip) /\ ~full) =>
                  /\ rateLimiter'[ip].admitted = rateLimiter[ip].admitted + 1
                  /\ rateLimiter'[ip].lastReset = rateLimiter[ip].lastReset
             /\ ~WindowRunning(ip) =>
                  /\ rateLimiter'[ip].admitted = 1
                  /\ rateLimiter'[ip].lastReset = now
             /\ \A other \in DOMAIN rateLimiter \ {ip} :
                  rateLimiter'[other] = rateLimiter[other]]_vars

\* in a window that is not its first, the address has had 30 connections
\* admitted and the next one has just been turned away, while the other
\* address is at its second
C27_Witness ==
  /\ last.op = "connect"
  /\ last.msgType = "10.0.0.1"
  /\ last.result.message = "Rate limited"
  /\ WindowRunning("10.0.0.1")
  /\ rateLimiter["10.0.0.1"].admitted = maxPerWindow
  /\ rateLimiter["10.0.0.1"].lastReset > windowLength
  /\ "10.0.0.2" \in DOMAIN rateLimiter
  /\ rateLimiter["10.0.0.2"].admitted = 2

----------------------------------------------------------------------------
\* connection c is the same connection before and after the step
Lives(c) == c \in DOMAIN clients /\ c \in DOMAIN clients'

\* C28: of the frames of one connection at most 100 are parsed and handed
\* to the handlers; a frame that arrives when 100 have been counted is
\* answered with an error and nothing else, and the server closes the
\* connection; the counter of a live connection never goes down.
C28_Ceiling ==
  /\ [](\A c \in DOMAIN clients : clients[c].handled <= maxMessages)
  /\ [][\A c \in Conns :
          Lives(c) =>
            /\ clients'[c].messageCount >= clients[c].messageCount
            /\ (/\ clients'[c].messageCount > clients[c].messageCount
                /\ clients[c].messageCount >= maxMessages) =>
                 /\ clients'[c].handled = clients[c].handled
                 /\ wire'[c] = <<"error">>
                 /\ last'.result.message = "Message rate exceeded"
                 /\ sockets'[c].readyState # "OPEN"
                 /\ game' = game
                 /\ joinedConn' = joinedConn]_vars

\* the connection has had a hundred frames handled, the next one has been
\* refused and the server has closed the socket
C28_Witness ==
  /\ "c1" \in DOMAIN clients
  /\ clients["c1"].handled = maxMessages
  /\ clients["c1"].messageCount = maxMessages + 1
  /\ sockets["c1"].readyState = "CLOSING"
  /\ wire["c1"] = <<"error">>

----------------------------------------------------------------------------
\* C29: when a reset is broadcast, every registered connection whose send
\* works receives the game state, whatever happens to the others, and
\* every registered connection whose send fails is out of the registry
\* afterwards.
C29_BroadcastResilient ==
  [][\A c \in Conns :
       MessageArrives(c, Frame("reset", 0, 0)) =>
         \A d \in DOMAIN clients :
           /\ CanSend(d) => wire'[d] = <<"gameState">>
           /\ (sockets[d].readyState = "OPEN" /\ sockets[d].broken) =>
                d \notin DOMAIN clients']_vars

\* what broadcastGameState() does: the connections whose send works
\* receive the game state, and the one whose send fails stays in the
\* registry
FailedSendKept ==
  [][\A c \in Conns :
       MessageArrives(c, Frame("reset", 0, 0)) =>
         \A d \in DOMAIN clients :
           /\ CanSend(d) => wire'[d] = <<"gameState">>
           /\ ~CanSend(d) => (wire'[d] = <<>> /\ d \in DOMAIN clients')]_vars

----------------------------------------------------------------------------
\* C30: an event is handed to the broker when the queue reaches ten events
\* or 100 ms after it was queued, whichever is first: no event of a batch
\* had been queued for longer than 100 ms, and none in the queue has.
C30_BoundedWait ==
  /\ \A i \in DOMAIN flushed : flushed[i] <= batchTimeout
  /\ \A i \in DOMAIN messageQueue :
       now - messageQueue[i].timestamp <= batchTimeout
  /\ Len(messageQueue) < batchSize

----------------------------------------------------------------------------
----------------------------------------------------------------------------
\* the frames of connection c that have arrived and whose handler has not
\* acted yet
Waiting(c) ==
  {m.n : m \in {x \in suspended : x.c = c}}
    \cup {serverQueue[i].n : i \in {j \in DOMAIN serverQueue : serverQueue[j].c = c}}

\* the handlers have acted on the frames of each connection in the order
\* in which the frames arrived
InOrder ==
  /\ \A i \in DOMAIN applied :
       \A n \in Waiting(applied[i].c) : applied[i].n < n
  /\ \A i, j \in DOMAIN applied :
       (i < j /\ applied[i].c = applied[j].c) => applied[i].n < applied[j].n

\* while a join handler waits between asking for the participant count
\* and calling addPlayer, the game is left as it is
Undisturbed ==
  [][\A m \in suspended : m \in suspended' => game'[P1] = game[P1]]_vars

\* C32: the handlers of one server act on the game one at a time, nothing
\* touching the game between the point where a handler asks for the
\* participant count and the point where it acts, and the frames of one
\* connection take effect in the order in which they arrived.
C32_Serialized == []InOrder /\ Undisturbed


\* connection c is registered and open, its peer answers every ping and has
\* answered the last one, and its last activity is within the threshold
Answering(c) ==
  /\ c \in DOMAIN clients
  /\ sockets[c].readyState = "OPEN"
  /\ sockets[c].answers
  /\ clients[c].isAlive
  /\ now - clients[c].lastActivity <= staleThreshold

\* C33: a connection whose peer answers every ping before the next health
\* check and whose activity is recent is never closed nor taken out of the
\* registry by the health check, and the participant it joined as stays in
\* the game.
C33_AnsweringKept ==
  [][last'.op = "health" =>
       \A c \in Conns :
         Answering(c) =>
           /\ sockets'[c].readyState = "OPEN"
           /\ c \in DOMAIN clients'
           /\ Ident(c) \in joinedConn[P1] =>
                 Ident(c) \in Participants(game'[P1])]_vars


\* C34: while a participant stays in the game, every move of theirs that is
\* accepted places the mark they were told when they joined, whoever else
\* has left or joined in between and whatever count their join was given.
C34_MarkKept ==
  [][(last'.op = "move" /\ game' # game /\
      told[last'.proc][last'.id] # "none") =>
       game'[last'.proc].board[<<last'.row, last'.col>>] =
         told[last'.proc][last'.id]]_vars


\* C35: a move made under an identifier that is not in the participant set
\* of the game at that moment is rejected, whoever's turn it is; so is the
\* move of a connection whose identifier a leave event or a snapshot of the
\* peer has taken out of the set.
C35_StrangerRejected ==
  [][(last'.op = "move" /\
      last'.id \notin Participants(game[last'.proc])) =>
       ~last'.result.success]_vars


\* a game that was won or drawn and has not been reset since
Over(g) == g.winner # "null" \/ g.moveCount = 9

\* C36: once a game is won or drawn, no move is accepted and the board
\* stays as it is until the game is reset, whoever leaves or joins in the
\* meantime.
C36_FinishedFrozen ==
  [][\A p \in Procs :
       (Over(game[p]) /\ last'.op # "reset") =>
          game'[p].board = game[p].board]_vars


\* C39: the winner named in the result of an accepted move that ends the
\* game is the winner field of the game state that result carries, for a
\* win and for a draw alike.
C39_WinnerAgrees ==
  (last.op = "move" /\ last.result.success /\ last.result.gameOver) =>
     last.result.winner = last.result.gameState.winner


\* C40: the breaker of the replication client is Closed exactly when its
\* failure count is below the threshold; an Open or HalfOpen breaker has
\* counted at least threshold failures.
C40_BreakerCount ==
  \A p \in Procs :
    circuitBreaker[p].state = "CLOSED" <=>
      circuitBreaker[p].failures < threshold

\* the trial connection of a breaker that had opened has succeeded: the
\* breaker is closed and its count is back at zero
C40_Witness ==
  /\ circuitBreaker[P1].attemptState = "HALF_OPEN"
  /\ circuitBreaker[P1].state = "CLOSED"
  /\ circuitBreaker[P1].failures = 0


\* C37: when the breaker is open, its cool-down has passed, the
\* reconnection attempts are not used up and the broker is reachable and
\* stays so, the breaker is eventually closed again and the manager
\* connected, so that publications go through.
C37_Recovers ==
  (/\ CooledDown
   /\ reconnectAttempts[P1] < maxReconnectAttempts
   /\ brokerUp)
    ~> (\/ circuitBreaker[P1].state = "CLOSED" /\ isConnected[P1]
        \/ ~brokerUp)


\* the leave events of server-3001 the broker has been given
LeavesPublished ==
  {e \in channel : e.type = "playerLeave" /\ e.serverId = P1}

\* the health check has just removed a participant of a connected
\* server-3001 that had published no leave event so far
SweptUnannounced ==
  /\ last.op = "health"
  /\ last.gcount >= 1
  /\ isConnected[P1]
  /\ LeavesPublished = {}

\* C38: whenever a participant is removed because its connection ended, by
\* an ordinary close or by the sweep of the health check, a connected
\* server publishes a leave event for the peer.
C38_LeaveAnnounced ==
  /\ [](last.op = "leave" /\ isConnected[last.proc] =>
          \E e \in LeavesPublished : e.playerId = last.id)
  /\ SweptUnannounced ~> (LeavesPublished # {})

============================================================================
